---- MODULE Spec2Model ----
(***************************************************************************)
(* Token usage ledger of opencti-ai-agent (core/token_usage): the          *)
(* process-wide TokenUsage object, its storage file, the validators and    *)
(* the callers' threads.  Time is counted in hours.                        *)
(* Durable key/value store (memory/cache_store.py): a CacheStore object,   *)
(* its lock and the files of its directory.                                *)
(***************************************************************************)
EXTENDS Integers, Sequences, FiniteSets, TLC

VARIABLES now, usage, file, lock, pc, cur, world, cache, disk, store_lock, saved,
          registry, stores, registry_lock, data_cache, cache_expiry, singleton, frame

ledgerVars == <<now, usage, file, lock>>

\* cache: CacheStore.cache; disk: the content of each file; store_lock: the
\* holder of CacheStore.lock; saved: what the callers have saved so far
storeVars == <<cache, disk, store_lock, saved>>

\* registry: cache_manager._cache_registry, an alias to a CacheStore object;
\* stores: the CacheStore objects made so far; registry_lock: the holder of
\* cache_manager._registry_lock
registryVars == <<registry, stores, registry_lock>>

\* the two dicts of ingestion/opencti/cache.py
ttlVars == <<data_cache, cache_expiry>>

\* singleton: TokenUsage._instance and the objects made by TokenUsage();
\* frame: the locals of the function a thread is in above the call in cur
moreVars == <<registry, stores, registry_lock, data_cache, cache_expiry, singleton, frame>>

vars == <<now, usage, file, lock, pc, cur, world, cache, disk, store_lock, saved,
          registry, stores, registry_lock, data_cache, cache_expiry, singleton, frame>>

----------------------------------------------------------------------------
(* Bounds of the model *)

\* config/settings.py:23, read from the environment; scaled down
AGENT_DEFAULT_TOKEN_LIMIT == 3
\* config/settings.py:24, read from the environment; scaled down
SYSTEM_DAILY_TOKEN_LIMIT == 4
\* the clock stops here
MaxTime == 36
\* hours between two readings of the clock
TickHours == 12
\* the largest count a caller passes
MaxTok == 2

\* storage.py:48, window_hours
Window == 24

Threads == {"t1", "t2"}
NoThread == "none"

----------------------------------------------------------------------------
(* Values passed by callers *)

\* an identity argument: a Python str (its characters) or some other object
Str(s) == [isStr |-> TRUE, chars |-> s]
NotAStr == [isStr |-> FALSE, chars |-> <<>>]

N_a == Str(<<"a">>)
N_b == Str(<<"b", "_", "1">>)
N_nl == Str(<<"a", "\n">>)
N_sp == Str(<<"a", " ">>)
N_empty == Str(<<>>)

Names == {N_a, N_b, N_nl, N_sp, N_empty, NotAStr}

\* a count argument: an int, or something int() rejects
IntC(v) == [kind |-> "int", val |-> v]
Junk == [kind |-> "junk", val |-> 0]
\* an OpenRouter response
Responses ==
    {[shape |-> "ok", prompt |-> IntC(1), completion |-> IntC(0)],
     [shape |-> "ok", prompt |-> IntC(-1), completion |-> IntC(1)],
     [shape |-> "ok", prompt |-> Junk, completion |-> IntC(1)],
     [shape |-> "missing_field", prompt |-> IntC(0), completion |-> IntC(0)]}

\* the count pairs of the log calls
Pairs ==
    {<<IntC(-1), IntC(1)>>, <<IntC(1), IntC(-1)>>, <<IntC(-1), IntC(-1)>>,
     <<IntC(1), IntC(1)>>, <<IntC(MaxTok), IntC(1)>>, <<IntC(MaxTok), IntC(MaxTok)>>,
     <<Junk, IntC(1)>>, <<IntC(1), Junk>>}

\* the callers of a run: the identities each thread passes, and the counts
Callers(names, pairs) == [threads |-> DOMAIN names, names |-> names, pairs |-> pairs]

Max(x, y) == IF x >= y THEN x ELSE y

RECURSIVE Sum(_, _)
Sum(f, S) == IF S = {} THEN 0
             ELSE LET x == CHOOSE y \in S : TRUE IN f[x] + Sum(f, S \ {x})

----------------------------------------------------------------------------
(* validators.py *)

SafeChars ==
    {"a","b","c","d","e","f","g","h","i","j","k","l","m",
     "n","o","p","q","r","s","t","u","v","w","x","y","z",
     "A","B","C","D","E","F","G","H","I","J","K","L","M",
     "N","O","P","Q","R","S","T","U","V","W","X","Y","Z",
     "0","1","2","3","4","5","6","7","8","9","_","-"}

\* re.match(r'^[a-zA-Z0-9_-]+$', s): '$' also matches just before a final newline
RegexMatch(s) ==
    LET n == Len(s)
        body == IF n > 0 /\ s[n] = "\n" THEN SubSeq(s, 1, n - 1) ELSE s
    IN  Len(body) > 0 /\ \A i \in 1..Len(body) : body[i] \in SafeChars

validate_agent_name(agent_name) ==
    IF ~agent_name.isStr \/ Len(agent_name.chars) = 0 THEN FALSE
    ELSE RegexMatch(agent_name.chars)

\* a negative count zeroes both fields
validate_token_counts_zeroed(input_tokens, output_tokens) ==
    IF input_tokens.kind # "int" \/ output_tokens.kind # "int" THEN <<0, 0>>
    ELSE IF input_tokens.val < 0 \/ output_tokens.val < 0 THEN <<0, 0>>
    ELSE <<input_tokens.val, output_tokens.val>>

validate_token_counts(input_tokens, output_tokens) ==
    IF input_tokens.kind # "int" \/ output_tokens.kind # "int" THEN <<0, 0>>
    ELSE <<Max(0, input_tokens.val), Max(0, output_tokens.val)>>

----------------------------------------------------------------------------
(* token_usage.py: limits *)

Upper(c) == CASE c = "a" -> "A" [] c = "b" -> "B" [] OTHER -> c

EnvVar(chars) == [i \in 1..Len(chars) |-> Upper(chars[i])] \o <<"_TOKEN_LIMIT">>

DigitChars == <<"0", "1", "2", "3", "4", "5", "6", "7", "8", "9">>

IsDigit(c) == \E d \in 1..10 : DigitChars[d] = c
DigitVal(c) == (CHOOSE d \in 1..10 : DigitChars[d] = c) - 1

\* str(n) of an int
RECURSIVE str(_)
str(n) ==
    IF n < 0 THEN <<"-">> \o str(0 - n)
    ELSE IF n < 10 THEN <<DigitChars[n + 1]>>
    ELSE str(n \div 10) \o <<DigitChars[(n % 10) + 1]>>

IsSpace(c) == c \in {" ", "\n", "\t"}

RECURSIVE strip(_)
strip(s) ==
    IF Len(s) > 0 /\ IsSpace(s[1]) THEN strip(Tail(s))
    ELSE IF Len(s) > 0 /\ IsSpace(s[Len(s)]) THEN strip(SubSeq(s, 1, Len(s) - 1))
    ELSE s

RECURSIVE DecimalVal(_)
DecimalVal(s) ==
    IF Len(s) = 0 THEN 0
    ELSE IF s[Len(s)] = "_" THEN DecimalVal(SubSeq(s, 1, Len(s) - 1))
    ELSE 10 * DecimalVal(SubSeq(s, 1, Len(s) - 1)) + DigitVal(s[Len(s)])

\* int(s) of a str: blanks around, a sign, decimal digits with single
\* underscores between them; anything else is a ValueError (Junk)
int(s) ==
    LET body == strip(s)
        signed == Len(body) > 0 /\ body[1] \in {"+", "-"}
        digits == IF signed THEN Tail(body) ELSE body
        n == Len(digits)
        wellformed ==
            /\ n > 0
            /\ IsDigit(digits[1]) /\ IsDigit(digits[n])
            /\ \A i \in 1..n : IsDigit(digits[i]) \/ digits[i] = "_"
            /\ \A i \in 1..(n - 1) : ~(digits[i] = "_" /\ digits[i + 1] = "_")
    IN  IF ~wellformed THEN Junk
        ELSE IF signed /\ body[1] = "-" THEN IntC(0 - DecimalVal(digits))
        ELSE IntC(DecimalVal(digits))

\* the process environment: B_1_TOKEN_LIMIT=2
Environ == [k \in {<<"B", "_", "1", "_TOKEN_LIMIT">>} |-> <<"2">>]

\* a non-positive override is returned as it is
get_agent_limit_any(agent_name, env) ==
    IF ~agent_name.isStr \/ Len(agent_name.chars) = 0 THEN AGENT_DEFAULT_TOKEN_LIMIT
    ELSE LET env_var == EnvVar(agent_name.chars)
             limit_str == IF env_var \in DOMAIN env THEN env[env_var]
                          ELSE str(AGENT_DEFAULT_TOKEN_LIMIT)
             limit == int(limit_str)
         IN  IF limit.kind # "int" THEN AGENT_DEFAULT_TOKEN_LIMIT
             ELSE limit.val

get_agent_limit(agent_name, env) ==
    IF ~agent_name.isStr \/ Len(agent_name.chars) = 0 THEN AGENT_DEFAULT_TOKEN_LIMIT
    ELSE LET env_var == EnvVar(agent_name.chars)
             limit_str == IF env_var \in DOMAIN env THEN env[env_var]
                          ELSE str(AGENT_DEFAULT_TOKEN_LIMIT)
             limit == int(limit_str)
         IN  IF limit.kind # "int" THEN AGENT_DEFAULT_TOKEN_LIMIT
             ELSE IF limit.val <= 0 THEN AGENT_DEFAULT_TOKEN_LIMIT
             ELSE limit.val

\* the per-agent check lets one token too many through
AgentLimitExceeded_off(agent_total, agent_limit) == agent_total > agent_limit + 1

AgentLimitExceeded(agent_total, agent_limit) == agent_total > agent_limit

\* the system check lets one token too many through
SystemLimitExceeded_off(system_total) == system_total > SYSTEM_DAILY_TOKEN_LIMIT + 1

\* the system check is missing
SystemLimitExceeded_never(system_total) == FALSE

SystemLimitExceeded(system_total) == system_total > SYSTEM_DAILY_TOKEN_LIMIT

\* lines 117 and 119: total >= 0.8 * limit.  The float product is exact when
\* the limit is a multiple of 5 and at least 0.2 from every integer otherwise,
\* so the comparison is that of 5 * total with 4 * limit
NearingLimit(total, limit) == 5 * total >= 4 * limit

----------------------------------------------------------------------------
(* storage.py *)

Empty == [a \in {} |-> 0]

\* a record updated exactly 24 hours ago is dropped too
prune_expired_strict(data, t) ==
    LET cutoff == t - Window
        kept == {a \in DOMAIN data : data[a].last_updated > cutoff}
    IN  [a \in kept |-> data[a]]

\* nothing is dropped
prune_expired_keep(data, t) == data

prune_expired(data, t) ==
    LET cutoff == t - Window
        kept == {a \in DOMAIN data : data[a].last_updated >= cutoff}
    IN  [a \in kept |-> data[a]]

\* the ledger file is not read
load_nothing(f) == Empty

\* json.load of the ledger file; no record is checked
load(f) == f

----------------------------------------------------------------------------
(* token_usage.py: reads *)

Zero == [input |-> 0, output |-> 0, total |-> 0]
Counters(r) == [input |-> r.input, output |-> r.output, total |-> r.total]

\* the stored record is never found
get_usage_absent(u, agent_name) == Zero

get_usage(u, agent_name) ==
    IF ~validate_agent_name(agent_name) THEN Zero
    ELSE IF agent_name \notin DOMAIN u THEN Zero
    ELSE Counters(u[agent_name])

\* the sums get_total_usage returns for an already pruned ledger
TotalOf(u) ==
    LET total_input == Sum([a \in DOMAIN u |-> u[a].input], DOMAIN u)
        total_output == Sum([a \in DOMAIN u |-> u[a].output], DOMAIN u)
    IN  [input |-> total_input, output |-> total_output,
         total |-> total_input + total_output]

\* the lock is not taken
RLockAvailable_open(t) == TRUE

RLockAvailable(t) == lock = NoThread

----------------------------------------------------------------------------
(* cache_store.py: values, keys and files *)

\* Optional[str]: a result is a Str; None
None == [isStr |-> FALSE, chars |-> <<"None">>]

\* a (task, agent_name) pair of strings
Pair(task, agent_name) == [task |-> task, agent_name |-> agent_name]

\* hashlib.sha256(...).hexdigest(), taken as free of collisions: one digest
\* for each input
sha256(raw_input) == [hexdigest |-> raw_input]

\* lines 43-48: the digest of f"{agent_name}::{task}"
compute_hash(task, agent_name) == sha256(agent_name \o <<":", ":">> \o task)

KeyOf(p) == compute_hash(p.task, p.agent_name)

\* the object self.cache refers to
PyDict(items) == [type |-> "dict", items |-> items, len |-> Cardinality(DOMAIN items)]
PyList(len) == [type |-> "list", items |-> Empty, len |-> len]

\* the content of a file: none, a JSON text, the beginning of one, other bytes
Absent == [kind |-> "absent", value |-> PyList(0)]
Truncated == [kind |-> "truncated", value |-> PyList(0)]
NotJson == [kind |-> "not_json", value |-> PyList(0)]
Json(value) == [kind |-> "json", value |-> value]

\* json.dump(obj, f): the text of a dict of strings or of a list reads back
\* as an equal object
json_dump(obj) == Json(obj)

CachePath == <<"cache">>
TempPaths == {<<"cache", "tmp", t>> : t \in Threads}
LedgerPath == <<"ledger">>
LedgerTemp == <<"ledger", "tmp">>
Paths == {CachePath, LedgerPath, LedgerTemp} \cup TempPaths

NoFiles == [p \in Paths |-> Absent]

\* nothing saved yet: latest[k] is the value last saved under key k and
\* whether the store was constructed anew since; pairs are the pairs saved and
\* not removed or cleared since; removed are the pairs for which remove has
\* returned True and that were not saved since
NoSaves == [latest |-> Empty, pairs |-> {}, removed |-> {}]

----------------------------------------------------------------------------
(* cache_manager.py: the registry as the module leaves it when imported *)

\* aliases are strings
A_default == <<"default">>

\* line 9 and line 39: f"{cache_dir}/{alias}_cache.json"
SHARED_CACHE_PATH == <<"memory/cache/", "shared", "_cache.json">>
AliasPath(alias) == <<"memory/cache/">> \o alias \o <<"_cache.json">>

\* a CacheStore object: its path, its map and the holder of its lock
Store(cache_path, c) == [cache_path |-> cache_path, cache |-> c, lock |-> NoThread]

\* line 10: _shared_cache is the first CacheStore made
shared_cache == 1

NoFrame == [op |-> "none"]

\* lines 6-13 of cache_manager.py, lines 8-9 of cache.py, line 35 of
\* token_usage.py
NothingMore(w) ==
    /\ registry = [a \in {A_default} |-> shared_cache]
    /\ stores = <<Store(SHARED_CACHE_PATH, PyDict(Empty))>>
    /\ registry_lock = NoThread
    /\ data_cache = Empty
    /\ cache_expiry = Empty
    /\ singleton = [instance |-> 0, objects |-> <<>>]
    /\ frame = [t \in w.threads |-> NoFrame]

----------------------------------------------------------------------------
(* State *)

\* cur[t]: the call thread t is in, with the ledger and the file as they were
\* when it started, the total its per-agent check computed, the warnings it
\* logged, whether a write of the file failed under it and, once it is
\* returning, its outcome
NoCall == [op |-> "none", name |-> N_empty, inp |-> IntC(0), out |-> IntC(0),
           before |-> Empty, fbefore |-> Empty, t0 |-> 0, t1 |-> 0,
           agent_total |-> 0, warned |-> {}, failed |-> FALSE,
           outcome |-> "none", value |-> Zero, after |-> Empty, fafter |-> Empty]

Call(op, name, i, o) ==
    [op |-> op, name |-> name, inp |-> i, out |-> o,
     before |-> usage, fbefore |-> file, t0 |-> now, t1 |-> now,
     agent_total |-> 0, warned |-> {}, failed |-> FALSE,
     outcome |-> "none", value |-> Zero, after |-> Empty, fafter |-> Empty]

Done(c, outcome, value, u, f) ==
    [c EXCEPT !.outcome = outcome, !.value = value, !.after = u, !.fafter = f]

\* lines 50-55 and 195-199: TokenUsage() loads the ledger file f, prunes, saves
Constructed(f, w) ==
    /\ now = 0
    /\ usage = prune_expired(load(f), now)
    /\ file = usage
    /\ lock = NoThread
    /\ world = w
    /\ pc = [t \in w.threads |-> "idle"]
    /\ cur = [t \in w.threads |-> NoCall]
    /\ cache = PyDict(Empty)
    /\ disk = NoFiles
    /\ store_lock = NoThread
    /\ saved = NoSaves
    /\ NothingMore(w)

\* two threads, each logging for either agent, over a missing ledger file
Init == Constructed(Empty, Callers([t \in Threads |-> {N_a, N_b}], Pairs))

\* two threads, each logging for its own agent
InitThreads ==
    Constructed(Empty, Callers([t \in Threads |-> IF t = "t1" THEN {N_a} ELSE {N_b}], Pairs))

\* one thread passing well-formed and malformed identities
InitNames ==
    Constructed(Empty,
                Callers([t \in {"t1"} |-> {N_a, N_nl, N_sp, N_empty, NotAStr}],
                        {<<IntC(1), IntC(1)>>, <<IntC(MaxTok), IntC(MaxTok)>>}))

Rec(i, o, tot, at) == [input |-> i, output |-> o, total |-> tot, last_updated |-> at]

\* ledger files found at start: none, written by an earlier run, edited by hand
LedgerFiles ==
    {Empty,
     [a \in {N_a} |-> Rec(1, 1, 2, 0)],
     [a \in {N_a, N_b} |-> IF a = N_a THEN Rec(1, 0, 1, 0) ELSE Rec(1, 1, 2, 0 - Window - 1)],
     [a \in {N_a} |-> Rec(1, 1, 3, 0)]}

\* one thread over any of these files
InitFile ==
    \E f \in LedgerFiles :
        Constructed(f, Callers([t \in {"t1"} |-> {N_a, N_b}], Pairs))

TypeOK ==
    /\ now \in 0..MaxTime
    /\ lock \in Threads \cup {NoThread}
    /\ \A t \in world.threads :
         pc[t] \in {"idle", "check_system", "apply", "return"}
    /\ DOMAIN usage \subseteq Names

\* the clock is read at the start of a call and again by its later steps; it
\* advances between two readings
Tick ==
    /\ \A t \in world.threads : pc[t] # "return"
    /\ now + TickHours <= MaxTime
    /\ now' = now + TickHours
    /\ UNCHANGED <<usage, file, lock, pc, cur, world, cache, disk, store_lock, saved, moreVars>>

\* the call returns (or raises) to its caller; leaving the with-block frees the lock
Return(t) ==
    /\ pc[t] = "return"
    /\ pc' = [pc EXCEPT ![t] = "idle"]
    /\ cur' = [cur EXCEPT ![t] = NoCall]
    /\ lock' = IF lock = t THEN NoThread ELSE lock
    /\ UNCHANGED <<now, usage, file, world, cache, disk, store_lock, saved, moreVars>>

----------------------------------------------------------------------------
(* token_usage.py: log_tokens, one step per reading of the clock *)

\* lines 88-108: the name is validated and the ledger lock taken; the ledger is
\* pruned and saved, then the per-agent check
LogBegin(t, op, name, i, o) ==
    /\ pc[t] = "idle"
    /\ IF ~validate_agent_name(name)
       THEN /\ pc' = [pc EXCEPT ![t] = "return"]
            /\ cur' = [cur EXCEPT ![t] =
                          Done(Call(op, name, i, o), "ignored", Zero, usage, file)]
            /\ UNCHANGED <<now, usage, file, lock, world, cache, disk, store_lock, saved, moreVars>>
       ELSE /\ RLockAvailable(t)
            /\ lock' = t
            /\ LET v == validate_token_counts(i, o)
                   total_new == v[1] + v[2]
                   pruned == prune_expired(usage, now)
                   agent_total == get_usage(pruned, name).total + total_new
                   agent_limit == get_agent_limit(name, Environ)
                   c == [Call(op, name, i, o) EXCEPT !.agent_total = agent_total]
               IN  /\ usage' = pruned
                   /\ file' = pruned
                   /\ IF AgentLimitExceeded(agent_total, agent_limit)
                      THEN /\ pc' = [pc EXCEPT ![t] = "return"]
                           /\ cur' = [cur EXCEPT ![t] =
                                         Done(c, "agent_limit", Zero, pruned, pruned)]
                      ELSE /\ pc' = [pc EXCEPT ![t] = "check_system"]
                           /\ cur' = [cur EXCEPT ![t] = c]
            /\ UNCHANGED <<now, world, cache, disk, store_lock, saved, moreVars>>

log_tokens(t, agent_name, input_tokens, output_tokens) ==
    LogBegin(t, "log_tokens", agent_name, input_tokens, output_tokens)

\* lines 57-86: a malformed response is logged as (0, 0)
log_tokens_from_openrouter(t, agent_name, response) ==
    LET wellformed == /\ response.shape = "ok"
                      /\ response.prompt.kind = "int"
                      /\ response.completion.kind = "int"
    IN  IF wellformed
        THEN LogBegin(t, "log_tokens_from_openrouter", agent_name,
                      IntC(response.prompt.val), IntC(response.completion.val))
        ELSE LogBegin(t, "log_tokens_from_openrouter", agent_name, IntC(0), IntC(0))

\* lines 110-120: get_total_usage prunes and saves again, then the system check
\* and, for a call that passed both checks, the warnings
log_check_system(t) ==
    /\ pc[t] = "check_system"
    /\ LET c == cur[t]
           v == validate_token_counts(c.inp, c.out)
           total_new == v[1] + v[2]
           pruned == prune_expired(usage, now)
           system_total == TotalOf(pruned).total + total_new
           agent_limit == get_agent_limit(c.name, Environ)
           warnings ==
               {w \in {"agent"} : NearingLimit(c.agent_total, agent_limit)}
               \cup {w \in {"system"} : NearingLimit(system_total, SYSTEM_DAILY_TOKEN_LIMIT)}
           c1 == [c EXCEPT !.t1 = now]
       IN  /\ usage' = pruned
           /\ file' = pruned
           /\ IF SystemLimitExceeded(system_total)
              THEN /\ pc' = [pc EXCEPT ![t] = "return"]
                   /\ cur' = [cur EXCEPT ![t] =
                                 Done(c1, "system_limit", Zero, pruned, pruned)]
              ELSE /\ pc' = [pc EXCEPT ![t] = "apply"]
                   /\ cur' = [cur EXCEPT ![t] = [c1 EXCEPT !.warned = warnings]]
    /\ UNCHANGED <<now, lock, world, cache, disk, store_lock, saved, moreVars>>

\* lines 122-135: the counts are added, the record is stamped, the ledger saved
log_apply(t) ==
    /\ pc[t] = "apply"
    /\ LET c == cur[t]
           v == validate_token_counts(c.inp, c.out)
           total_new == v[1] + v[2]
           old == IF c.name \in DOMAIN usage THEN usage[c.name]
                  ELSE [input |-> 0, output |-> 0, total |-> 0, last_updated |-> now]
           rec == [input |-> old.input + v[1], output |-> old.output + v[2],
                   total |-> old.total + total_new, last_updated |-> now]
           u == [a \in DOMAIN usage \cup {c.name} |->
                    IF a = c.name THEN rec ELSE usage[a]]
       IN  /\ usage' = u
           /\ file' = u
           /\ pc' = [pc EXCEPT ![t] = "return"]
           /\ cur' = [cur EXCEPT ![t] = Done(c, "ok", Zero, u, u)]
    /\ UNCHANGED <<now, lock, world, cache, disk, store_lock, saved, moreVars>>

----------------------------------------------------------------------------
(* token_usage.py: the other operations, each wholly under the lock *)

get_usage_call(t, agent_name) ==
    /\ pc[t] = "idle"
    /\ IF ~validate_agent_name(agent_name)
       THEN UNCHANGED lock
       ELSE RLockAvailable(t) /\ lock' = t
    /\ pc' = [pc EXCEPT ![t] = "return"]
    /\ cur' = [cur EXCEPT ![t] =
                  Done(Call("get_usage", agent_name, IntC(0), IntC(0)), "returned",
                       get_usage(usage, agent_name), usage, file)]
    /\ UNCHANGED <<now, usage, file, world, cache, disk, store_lock, saved, moreVars>>

get_total_usage(t) ==
    /\ pc[t] = "idle"
    /\ RLockAvailable(t)
    /\ lock' = t
    /\ LET pruned == prune_expired(usage, now)
       IN  /\ usage' = pruned
           /\ file' = pruned
           /\ cur' = [cur EXCEPT ![t] =
                         Done(Call("get_total_usage", N_empty, IntC(0), IntC(0)),
                              "returned", TotalOf(pruned), pruned, pruned)]
    /\ pc' = [pc EXCEPT ![t] = "return"]
    /\ UNCHANGED <<now, world, cache, disk, store_lock, saved, moreVars>>

reset_daily_usage(t) ==
    /\ pc[t] = "idle"
    /\ RLockAvailable(t)
    /\ lock' = t
    /\ usage' = Empty
    /\ file' = Empty
    /\ cur' = [cur EXCEPT ![t] =
                  Done(Call("reset_daily_usage", N_empty, IntC(0), IntC(0)),
                       "returned", Zero, Empty, Empty)]
    /\ pc' = [pc EXCEPT ![t] = "return"]
    /\ UNCHANGED <<now, world, cache, disk, store_lock, saved, moreVars>>

Next ==
    \/ Tick
    \/ \E t \in world.threads : \E n \in world.names[t], p \in world.pairs :
           log_tokens(t, n, p[1], p[2])
    \/ \E t \in world.threads : \E n \in world.names[t], r \in Responses :
           log_tokens_from_openrouter(t, n, r)
    \/ \E t \in world.threads : log_check_system(t)
    \/ \E t \in world.threads : log_apply(t)
    \/ \E t \in world.threads : \E n \in world.names[t] : get_usage_call(t, n)
    \/ \E t \in world.threads : get_total_usage(t)
    \/ \E t \in world.threads : reset_daily_usage(t)
    \/ \E t \in world.threads : Return(t)

Spec == Init /\ [][Next]_vars

SpecThreads == InitThreads /\ [][Next]_vars

SpecNames == InitNames /\ [][Next]_vars

SpecFile == InitFile /\ [][Next]_vars

----------------------------------------------------------------------------
(* Vocabulary of the properties *)

LogOps == {"log_tokens", "log_tokens_from_openrouter"}

\* r was updated no more than 24 hours before t
InWindow(r, t) == r.last_updated + Window >= t

\* the records of u that are within the window at t
Live(u, t) == [a \in {x \in DOMAIN u : InWindow(u[x], t)} |-> u[a]]

\* the counters stored for a, zero when there is no record
Stored(u, a) == IF a \in DOMAIN u THEN Counters(u[a]) ELSE Zero

SumTotals(u) == Sum([a \in DOMAIN u |-> u[a].total], DOMAIN u)

LimitOf(a) == get_agent_limit(a, Environ)

\* thread t is returning from a log call that was not refused for its name
\* and whose counts are both integers
LogReturned(t) ==
    /\ pc[t] = "return"
    /\ cur[t].op \in LogOps
    /\ cur[t].outcome # "ignored"
    /\ cur[t].inp.kind = "int" /\ cur[t].out.kind = "int"

\* the amount such a call asks to add
New(c) == Max(0, c.inp.val) + Max(0, c.out.val)

Rejected(c) == c.outcome \in {"agent_limit", "system_limit"}

----------------------------------------------------------------------------
(* C1 *)

\* C1, as claimed: when the identity's total within the window plus the new
\* amount exceeds its limit, log_tokens raises 'Token limit exceeded' and
\* get_usage reports the same total for the identity after the call as before;
\* a call that brings the total to exactly the limit passes the check.
C1_AsClaimed ==
    \A t \in world.threads : LogReturned(t) =>
        LET c == cur[t]
            total0 == Stored(Live(c.before, c.t0), c.name).total
        IN  /\ total0 + New(c) > LimitOf(c.name) =>
                 /\ c.outcome = "agent_limit"
                 /\ get_usage(c.after, c.name).total = get_usage(c.before, c.name).total
            /\ total0 + New(c) = LimitOf(c.name) => c.outcome # "agent_limit"

\* C1, amended: when the identity's total within the window plus the new amount
\* exceeds its limit, log_tokens raises 'Token limit exceeded' and get_usage
\* then reports the identity's total within the window from before the call
\* (zero when its record had expired: the call prunes it before the check);
\* a call that brings the total to exactly the limit passes the check.
C1_Amended ==
    \A t \in world.threads : LogReturned(t) =>
        LET c == cur[t]
            total0 == Stored(Live(c.before, c.t0), c.name).total
        IN  /\ total0 + New(c) > LimitOf(c.name) =>
                 /\ c.outcome = "agent_limit"
                 /\ Stored(c.after, c.name).total = total0
            /\ total0 + New(c) = LimitOf(c.name) => c.outcome # "agent_limit"

\* a call is refused although its amount alone fits: the stored total decides
C1_Witness ==
    \E t \in world.threads :
        /\ LogReturned(t)
        /\ cur[t].outcome = "agent_limit"
        /\ New(cur[t]) <= LimitOf(cur[t].name)
        /\ Stored(cur[t].after, cur[t].name).total > 0

----------------------------------------------------------------------------
(* C2 *)

\* C2, as claimed: when the totals within the window plus the new amount exceed
\* the system limit, log_tokens raises 'System-wide token limit exceeded' and
\* applies nothing.
C2_AsClaimed ==
    \A t \in world.threads : LogReturned(t) =>
        LET c == cur[t]
            live == Live(c.before, c.t1)
        IN  SumTotals(live) + New(c) > SYSTEM_DAILY_TOKEN_LIMIT =>
                /\ c.outcome = "system_limit"
                /\ c.after = live

\* C2, amended: in that case log_tokens raises a quota error and applies
\* nothing; the error is 'System-wide token limit exceeded' when the identity's
\* own prospective total is within its limit, and the per-identity 'Token limit
\* exceeded', which is checked first, when it is not.
C2_Amended ==
    \A t \in world.threads : LogReturned(t) =>
        LET c == cur[t]
            live == Live(c.before, c.t1)
            total0 == Stored(Live(c.before, c.t0), c.name).total
        IN  SumTotals(live) + New(c) > SYSTEM_DAILY_TOKEN_LIMIT =>
                /\ c.after = live
                /\ c.outcome = IF total0 + New(c) > LimitOf(c.name)
                               THEN "agent_limit" ELSE "system_limit"

\* the system limit refuses a call of an identity that is within its own limit
\* and has used nothing yet
C2_Witness ==
    \E t \in world.threads :
        /\ LogReturned(t)
        /\ cur[t].outcome = "system_limit"
        /\ cur[t].name \notin DOMAIN cur[t].after
        /\ New(cur[t]) <= LimitOf(cur[t].name)

----------------------------------------------------------------------------
(* C3 *)

\* C3: from an empty ledger, in every state every identity's recorded total is
\* at most its limit and the recorded totals sum to at most the system limit.
C3_WithinLimits ==
    /\ \A a \in DOMAIN usage : usage[a].total <= LimitOf(a)
    /\ SumTotals(usage) <= SYSTEM_DAILY_TOKEN_LIMIT

\* both limits are reached exactly
C3_Witness ==
    /\ SumTotals(usage) = SYSTEM_DAILY_TOKEN_LIMIT
    /\ \E a \in DOMAIN usage : usage[a].total = LimitOf(a)

----------------------------------------------------------------------------
(* C4 *)

\* the calls that take the ledger lock
TakesLock(c) ==
    c.op \in {"get_total_usage", "reset_daily_usage"} \/ validate_agent_name(c.name)

InLedger(t) ==
    \/ pc[t] \in {"check_system", "apply"}
    \/ pc[t] = "return" /\ TakesLock(cur[t])

\* C4: the prune-check-apply sequence of a log_tokens call is atomic: at most
\* one thread is inside the ledger; a call that passed both checks still fits
\* both limits when it applies its counts; and the ledger an accepted call
\* leaves is the ledger it found (less the expired records) plus its own counts
\* and nothing else.
C4_Atomic ==
    /\ Cardinality({t \in world.threads : InLedger(t)}) <= 1
    /\ \A t \in world.threads :
         (pc[t] = "apply" /\ cur[t].inp.kind = "int" /\ cur[t].out.kind = "int") =>
            /\ Stored(usage, cur[t].name).total + New(cur[t]) <= LimitOf(cur[t].name)
            /\ SumTotals(usage) + New(cur[t]) <= SYSTEM_DAILY_TOKEN_LIMIT
    /\ \A t \in world.threads : (LogReturned(t) /\ cur[t].outcome = "ok") =>
         LET c == cur[t]
             live == Live(c.before, c.t1)
             base == Stored(live, c.name)
         IN  /\ DOMAIN c.after = DOMAIN live \cup {c.name}
             /\ \A a \in DOMAIN live \ {c.name} : c.after[a] = live[a]
             /\ c.after[c.name].total = base.total + New(c)
             /\ c.after[c.name].input + c.after[c.name].output = c.after[c.name].total

\* an accepted call of one thread adds to its agent's earlier total while the
\* other thread's agent has a total of its own
C4_Witness ==
    \E t \in world.threads :
        /\ LogReturned(t) /\ cur[t].outcome = "ok" /\ New(cur[t]) > 0
        /\ Stored(cur[t].before, cur[t].name).total > 0
        /\ InWindow(cur[t].before[cur[t].name], cur[t].t1)
        /\ \E a \in DOMAIN cur[t].after : a # cur[t].name /\ cur[t].after[a].total > 0

----------------------------------------------------------------------------
(* C5 *)

\* C5, as claimed: a log_tokens call rejected for quota leaves the ledger and
\* the ledger file as they were.
C5_AsClaimed ==
    \A t \in world.threads : (LogReturned(t) /\ Rejected(cur[t])) =>
        /\ cur[t].after = cur[t].before
        /\ cur[t].fafter = cur[t].fbefore

\* C5, amended: a log_tokens call rejected for quota creates and modifies no
\* record and removes none that is within the 24-hour window; the records older
\* than that are removed by the pruning that precedes the checks, and the file
\* then holds exactly the records that remain.
C5_Amended ==
    \A t \in world.threads : (LogReturned(t) /\ Rejected(cur[t])) =>
        /\ cur[t].after = Live(cur[t].before, cur[t].t1)
        /\ cur[t].fafter = Live(cur[t].fbefore, cur[t].t1)

\* a rejected call finds an expired record and one within the window
C5_Witness ==
    \E t \in world.threads :
        /\ LogReturned(t) /\ Rejected(cur[t])
        /\ cur[t].after # Empty
        /\ cur[t].after # cur[t].before

----------------------------------------------------------------------------
(* C6 *)

SumInputs(u) == Sum([a \in DOMAIN u |-> u[a].input], DOMAIN u)
SumOutputs(u) == Sum([a \in DOMAIN u |-> u[a].output], DOMAIN u)

\* C6: a record more than 24 hours old is never counted: get_total_usage sums
\* the records within the window only; log_tokens decides both checks on the
\* records within the window only; an accepted log for an identity whose record
\* had expired leaves it a record holding exactly the new counts.
C6_StaleNotCounted ==
    /\ \A t \in world.threads : (pc[t] = "return" /\ cur[t].op = "get_total_usage") =>
         LET live == Live(cur[t].before, cur[t].t0)
         IN  cur[t].value = [input |-> SumInputs(live), output |-> SumOutputs(live),
                             total |-> SumInputs(live) + SumOutputs(live)]
    /\ \A t \in world.threads : LogReturned(t) =>
         LET c == cur[t]
         IN  /\ c.outcome =
                  IF Stored(Live(c.before, c.t0), c.name).total + New(c) > LimitOf(c.name)
                  THEN "agent_limit"
                  ELSE IF SumTotals(Live(c.before, c.t1)) + New(c) > SYSTEM_DAILY_TOKEN_LIMIT
                  THEN "system_limit"
                  ELSE "ok"
             /\ (/\ c.outcome = "ok"
                 /\ c.name \in DOMAIN c.before
                 /\ ~InWindow(c.before[c.name], c.t0)) =>
                    Counters(c.after[c.name]) =
                        [input |-> Max(0, c.inp.val), output |-> Max(0, c.out.val),
                         total |-> New(c)]

\* an identity whose expired record held tokens logs again and is accepted
C6_Witness ==
    \E t \in world.threads :
        /\ LogReturned(t) /\ cur[t].outcome = "ok" /\ New(cur[t]) > 0
        /\ cur[t].name \in DOMAIN cur[t].before
        /\ ~InWindow(cur[t].before[cur[t].name], cur[t].t0)
        /\ cur[t].before[cur[t].name].total > 0

----------------------------------------------------------------------------
(* C7 *)

GetUsageReturned(t) == pc[t] = "return" /\ cur[t].op = "get_usage"

\* C7, as claimed: get_usage for an identity whose record is more than 24 hours
\* old returns all zeros, whatever ran before it.
C7_AsClaimed ==
    \A t \in world.threads :
        (/\ GetUsageReturned(t)
         /\ cur[t].name \in DOMAIN cur[t].before
         /\ ~InWindow(cur[t].before[cur[t].name], cur[t].t0)) =>
            cur[t].value = Zero

\* C7, amended: get_usage does not prune: it returns the counts of the record
\* that is stored, expired or not, and zeros when none is stored; an expired
\* record is gone, and get_usage returns zeros for it, once a log_tokens call
\* for a valid identity or a get_total_usage call has run after it expired,
\* since those calls leave no expired record behind.
C7_Amended ==
    /\ \A t \in world.threads : GetUsageReturned(t) =>
         /\ cur[t].value = Stored(cur[t].before, cur[t].name)
         /\ cur[t].after = cur[t].before
    /\ \A t \in world.threads :
         (/\ pc[t] = "return"
          /\ cur[t].op \in LogOps \cup {"get_total_usage"}
          /\ cur[t].outcome # "ignored") =>
             \A a \in DOMAIN cur[t].after : InWindow(cur[t].after[a], cur[t].t1)

\* get_usage is the first call after a record expired
C7_Witness ==
    \E t \in world.threads :
        /\ GetUsageReturned(t)
        /\ cur[t].name \in DOMAIN cur[t].before
        /\ ~InWindow(cur[t].before[cur[t].name], cur[t].t0)
        /\ cur[t].value.total > 0

----------------------------------------------------------------------------
(* C8 *)

\* C8: whatever ledger file the ledger was constructed from, every stored
\* record has total = input + output, and the total get_total_usage returns is
\* the sum of the stored records' totals.
C8_AsClaimed ==
    /\ \A a \in DOMAIN usage : usage[a].total = usage[a].input + usage[a].output
    /\ \A t \in world.threads : (pc[t] = "return" /\ cur[t].op = "get_total_usage") =>
         cur[t].value.total = SumTotals(cur[t].after)

----------------------------------------------------------------------------
(* C9 *)

\* the identities the claim calls invalid
Unsafe(n) ==
    \/ ~n.isStr
    \/ Len(n.chars) = 0
    \/ \E i \in 1..Len(n.chars) : n.chars[i] \notin SafeChars

\* C9: for an identity that is empty, not a string, or holds a character other
\* than letters, digits, underscore and hyphen, log_tokens returns without
\* raising and leaves the ledger and the file as they were, no record is ever
\* stored for it, and get_usage returns zeros.
C9_AsClaimed ==
    /\ \A a \in DOMAIN usage : ~Unsafe(a)
    /\ \A t \in world.threads : (pc[t] = "return" /\ Unsafe(cur[t].name)) =>
         /\ cur[t].op \in LogOps =>
              /\ cur[t].outcome = "ignored"
              /\ cur[t].after = cur[t].before
              /\ cur[t].fafter = cur[t].fbefore
         /\ cur[t].op = "get_usage" => cur[t].value = Zero

----------------------------------------------------------------------------
(* C10 *)

\* C10: an accepted log_tokens call adds max(0, input) to the identity's input
\* counter and max(0, output) to its output counter, each on its own, counted
\* from the identity's record within the window: a negative count lowers
\* neither counter and does not suppress the other field's amount.
C10_Clamped ==
    \A t \in world.threads : (LogReturned(t) /\ cur[t].outcome = "ok") =>
        LET c == cur[t]
            base == Stored(Live(c.before, c.t1), c.name)
        IN  /\ c.after[c.name].input = base.input + Max(0, c.inp.val)
            /\ c.after[c.name].output = base.output + Max(0, c.out.val)
            /\ c.after[c.name].input >= base.input
            /\ c.after[c.name].output >= base.output

\* a negative input comes with a positive output, onto a record with both
C10_Witness ==
    \E t \in world.threads :
        /\ LogReturned(t) /\ cur[t].outcome = "ok"
        /\ cur[t].inp.val < 0 /\ cur[t].out.val > 0
        /\ Stored(Live(cur[t].before, cur[t].t1), cur[t].name).input > 0
        /\ cur[t].after[cur[t].name].output > Stored(cur[t].before, cur[t].name).output

----------------------------------------------------------------------------
(* C11 *)

\* C11: an accepted log_tokens call whose resulting total for the identity is
\* at least 80% of the identity's limit (and not above it) has logged the
\* nearing-limit warning and updated the record; an accepted call whose
\* resulting total is below 80% has logged no per-identity warning; a rejected
\* call has logged no nearing-limit warning.
C11_AsClaimed ==
    \A t \in world.threads : LogReturned(t) =>
        LET c == cur[t]
            limit == LimitOf(c.name)
            resulting == Stored(c.after, c.name).total
        IN  /\ (c.outcome = "ok" /\ 5 * resulting >= 4 * limit /\ resulting <= limit) =>
                 /\ "agent" \in c.warned
                 /\ c.name \in DOMAIN c.after
            /\ (c.outcome = "ok" /\ 5 * resulting < 4 * limit) => "agent" \notin c.warned
            /\ Rejected(c) => c.warned = {}

----------------------------------------------------------------------------
(* token_usage.py: get_agent_limit, called on its own *)

N_A == Str(<<"A">>)

\* the values an override is set to
EnvValues ==
    {<<"5">>, <<"0">>, <<"-", "1">>, <<"x">>, <<>>, <<" ", "7", "\n">>,
     <<"1", "_", "0">>, <<"+", "2">>, <<"2", ".", "5">>}

EnvNames == {<<"A", "_TOKEN_LIMIT">>, <<"B", "_", "1", "_TOKEN_LIMIT">>}

\* the environments: each override unset or set to one of the values
Environs ==
    UNION {[vs -> EnvValues] : vs \in SUBSET EnvNames}

\* one thread that resolves limits under the environment env
LimitCallers(env) ==
    [threads |-> {"t1"},
     names |-> [t \in {"t1"} |-> {N_a, N_A, N_b, N_sp, N_empty, NotAStr}],
     pairs |-> {}, env |-> env]

InitLimit == \E env \in Environs : Constructed(Empty, LimitCallers(env))

get_agent_limit_call(t, agent_name) ==
    /\ pc[t] = "idle"
    /\ pc' = [pc EXCEPT ![t] = "return"]
    /\ cur' = [cur EXCEPT ![t] =
                  [op |-> "get_agent_limit", name |-> agent_name,
                   limit |-> get_agent_limit(agent_name, world.env)]]
    /\ UNCHANGED <<now, usage, file, lock, world, cache, disk, store_lock, saved, moreVars>>

NextLimit ==
    \/ \E t \in world.threads : \E n \in world.names[t] : get_agent_limit_call(t, n)
    \/ \E t \in world.threads : Return(t)

SpecLimit == InitLimit /\ [][NextLimit]_vars

----------------------------------------------------------------------------
(* C12 *)

\* the override an identity names, for the identities that name one
OverrideOf(n) ==
    CASE n = N_a -> <<"A", "_TOKEN_LIMIT">>
      [] n = N_A -> <<"A", "_TOKEN_LIMIT">>
      [] n = N_b -> <<"B", "_", "1", "_TOKEN_LIMIT">>
      [] OTHER -> <<>>

\* the values that are integers, with the integer each denotes
IntegerValues ==
    {<<<<"5">>, 5>>, <<<<"0">>, 0>>, <<<<"-", "1">>, 0 - 1>>, <<<<" ", "7", "\n">>, 7>>,
     <<<<"1", "_", "0">>, 10>>, <<<<"+", "2">>, 2>>}

\* C12: get_agent_limit(identity) returns the value of the override named by
\* the upper-cased identity followed by _TOKEN_LIMIT when that override is set
\* and is a positive integer, and the global default in every other case: the
\* override unset, not positive, not an integer, the identity empty or not a
\* string.
C12_Limit ==
    \A t \in world.threads : (pc[t] = "return" /\ cur[t].op = "get_agent_limit") =>
        LET n == cur[t].name
            var == OverrideOf(n)
            positive == IF var \in DOMAIN world.env
                        THEN {m \in IntegerValues : m[1] = world.env[var] /\ m[2] > 0}
                        ELSE {}
        IN  cur[t].limit = IF positive # {}
                           THEN (CHOOSE m \in positive : TRUE)[2]
                           ELSE AGENT_DEFAULT_TOKEN_LIMIT

\* a lower-case identity is given the limit its upper-cased override sets
C12_Witness ==
    \E t \in world.threads :
        /\ pc[t] = "return" /\ cur[t].op = "get_agent_limit"
        /\ cur[t].name = N_b
        /\ <<"B", "_", "1", "_TOKEN_LIMIT">> \in DOMAIN world.env
        /\ world.env[<<"B", "_", "1", "_TOKEN_LIMIT">>] = <<"1", "_", "0">>
        /\ cur[t].limit = 10

----------------------------------------------------------------------------
(* token_usage.py: a new TokenUsage over the ledger file *)

\* lines 39-55 and 195-199: the process starts again (or the tests drop the
\* instance) and TokenUsage() is constructed over the file that is there:
\* loaded, pruned, saved.  cur[t].before is the ledger the earlier instance held
TokenUsage_new(t) ==
    /\ \A x \in world.threads : pc[x] = "idle"
    /\ RLockAvailable(t)
    /\ lock' = t
    /\ LET loaded == prune_expired(load(file), now)
       IN  /\ usage' = loaded
           /\ file' = loaded
           /\ cur' = [cur EXCEPT ![t] =
                         Done(Call("TokenUsage", N_empty, IntC(0), IntC(0)),
                              "returned", Zero, loaded, loaded)]
    /\ pc' = [pc EXCEPT ![t] = "return"]
    /\ UNCHANGED <<now, world, cache, disk, store_lock, saved, moreVars>>

NextRestart ==
    \/ Next
    \/ \E t \in world.threads : TokenUsage_new(t)

\* one thread over a missing ledger file
InitRestart == Constructed(Empty, Callers([t \in {"t1"} |-> {N_a, N_b}], Pairs))

SpecRestart == InitRestart /\ [][NextRestart]_vars

----------------------------------------------------------------------------
(* C13 *)

\* thread t is returning from a call that changed the ledger
MutatedAndReturned(t) ==
    /\ pc[t] = "return"
    /\ \/ cur[t].op \in LogOps /\ cur[t].outcome = "ok"
       \/ cur[t].op = "reset_daily_usage"

\* C13: when an accepted log_tokens or a reset_daily_usage returns, the ledger
\* file holds the ledger that is in memory; a TokenUsage constructed over that
\* file holds, for every identity whose record is within the 24-hour window,
\* the input, output and total the earlier instance held, and no record older
\* than the window.
C13_RoundTrip ==
    /\ \A t \in world.threads : MutatedAndReturned(t) =>
         /\ file = usage
         /\ cur[t].fafter = cur[t].after
    /\ \A t \in world.threads : (pc[t] = "return" /\ cur[t].op = "TokenUsage") =>
         LET c == cur[t]
         IN  /\ \A a \in DOMAIN c.before : InWindow(c.before[a], c.t0) =>
                    /\ a \in DOMAIN usage
                    /\ Counters(usage[a]) = Counters(c.before[a])
             /\ \A a \in DOMAIN usage : InWindow(usage[a], c.t0)
             /\ DOMAIN usage \subseteq DOMAIN c.before

\* the new instance keeps a record with tokens and drops an expired one
C13_Witness ==
    \E t \in world.threads :
        /\ pc[t] = "return" /\ cur[t].op = "TokenUsage"
        /\ \E a \in DOMAIN usage : usage[a].total > 0
        /\ \E b \in DOMAIN cur[t].before : ~InWindow(cur[t].before[b], cur[t].t0)

----------------------------------------------------------------------------
(* cache_store.py: CacheStore *)

\* the results the callers save: a text, the empty string
R_text == Str(<<"r">>)
R_empty == Str(<<>>)

\* the pairs the callers use; the first two write the same f-string
P_plain == Pair(<<"t">>, <<"g">>)
P_ns == Pair(<<"c">>, <<"a", ":", ":", "b">>)
P_task == Pair(<<"b", ":", ":", "c">>, <<"a">>)

NoSave == [pair |-> Pair(<<>>, <<>>), val |-> None]

\* a thread between two calls; last is the save a worker thread has just
\* returned from
StoreIdle(last) == [op |-> "none", last |-> last]

\* the call thread t is in, with the map, the file and the saved pairs as they
\* were when it started
StoreCall(t, op, p, v) ==
    [op |-> op, pair |-> p, val |-> v, prev |-> cur[t].last,
     before |-> cache, fbefore |-> disk[CachePath], hist |-> saved.pairs,
     failed |-> FALSE, outcome |-> "none", value |-> None]

StoreDone(c, outcome, value) == [c EXCEPT !.outcome = outcome, !.value = value]

\* the threads of a run over a CacheStore, the pairs and the results they pass
StoreCallers(threads, pairs, results) ==
    [threads |-> threads, store_pairs |-> pairs, results |-> results,
     workers |-> FALSE, todo |-> [t \in threads |-> <<>>]]

\* every file reads as an empty map
load_cache_empty(f) == PyDict(Empty)

\* lines 23-31
load_cache(f) ==
    IF f.kind = "absent" THEN PyDict(Empty)
    ELSE IF f.kind = "json" THEN f.value
    ELSE PyDict(Empty)

\* lines 18-21: CacheStore(cache_path) over the files d
StoreConstructed(d, w) ==
    /\ now = 0
    /\ usage = Empty
    /\ file = Empty
    /\ lock = NoThread
    /\ world = w
    /\ pc = [t \in w.threads |-> "idle"]
    /\ cur = [t \in w.threads |-> StoreIdle(NoSave)]
    /\ cache = load_cache(d[CachePath])
    /\ disk = d
    /\ store_lock = NoThread
    /\ saved = NoSaves
    /\ NothingMore(w)

\* self.lock is not taken
LockAvailable_open(t) == TRUE

\* with self.lock: a threading.Lock
LockAvailable(t) == store_lock = NoThread

\* the file is written in place
NamedTemporaryFile_inplace(t) == CachePath

\* line 38: a new file of the target's directory
NamedTemporaryFile(t) == <<"cache", "tmp", t>>

Put(items, key, value) ==
    [k \in DOMAIN items \cup {key} |-> IF k = key THEN value ELSE items[k]]

Del(items, key) == [k \in DOMAIN items \ {key} |-> items[k]]

\* lines 50-53; a list has no get
get(t, p) ==
    /\ pc[t] = "idle"
    /\ LockAvailable(t)
    /\ store_lock' = t
    /\ LET key == KeyOf(p)
           c == StoreCall(t, "get", p, None)
       IN  cur' = [cur EXCEPT ![t] =
                      IF cache.type # "dict" THEN StoreDone(c, "raised", None)
                      ELSE IF key \in DOMAIN cache.items
                      THEN StoreDone(c, "returned", cache.items[key])
                      ELSE StoreDone(c, "returned", None)]
    /\ pc' = [pc EXCEPT ![t] = "return"]
    /\ UNCHANGED <<now, usage, file, lock, world, cache, disk, saved, moreVars>>

\* lines 61-64; a digest is no element of a list
has(t, p) ==
    /\ pc[t] = "idle"
    /\ LockAvailable(t)
    /\ store_lock' = t
    /\ cur' = [cur EXCEPT ![t] =
                  StoreDone(StoreCall(t, "has", p, None), "returned",
                            cache.type = "dict" /\ KeyOf(p) \in DOMAIN cache.items)]
    /\ pc' = [pc EXCEPT ![t] = "return"]
    /\ UNCHANGED <<now, usage, file, lock, world, cache, disk, saved, moreVars>>

\* lines 71-73
size(t) ==
    /\ pc[t] = "idle"
    /\ LockAvailable(t)
    /\ store_lock' = t
    /\ cur' = [cur EXCEPT ![t] =
                  StoreDone(StoreCall(t, "size", NoSave.pair, None), "returned", cache.len)]
    /\ pc' = [pc EXCEPT ![t] = "return"]
    /\ UNCHANGED <<now, usage, file, lock, world, cache, disk, saved, moreVars>>

\* lines 55-58: the entry is set; a list takes no digest as an index
save(t, p, v) ==
    /\ pc[t] = "idle"
    /\ LockAvailable(t)
    /\ store_lock' = t
    /\ LET key == KeyOf(p)
           c == StoreCall(t, "save", p, v)
       IN  IF cache.type # "dict"
           THEN /\ cur' = [cur EXCEPT ![t] = StoreDone(c, "raised", None)]
                /\ pc' = [pc EXCEPT ![t] = "return"]
                /\ UNCHANGED <<cache, saved>>
           ELSE /\ cache' = PyDict(Put(cache.items, key, v))
                /\ saved' = [latest |-> Put(saved.latest, key, [val |-> v, kept |-> FALSE]),
                             pairs |-> saved.pairs \cup {p},
                             removed |-> saved.removed \ {p}]
                /\ cur' = [cur EXCEPT ![t] = c]
                /\ pc' = [pc EXCEPT ![t] = "save_open"]
    /\ UNCHANGED <<now, usage, file, lock, world, disk, moreVars>>

\* lines 90-98
remove(t, p) ==
    /\ pc[t] = "idle"
    /\ LockAvailable(t)
    /\ store_lock' = t
    /\ LET key == KeyOf(p)
           c == StoreCall(t, "remove", p, None)
       IN  IF cache.type = "dict" /\ key \in DOMAIN cache.items
           THEN /\ cache' = PyDict(Del(cache.items, key))
                /\ saved' = [latest |-> Del(saved.latest, key),
                             pairs |-> saved.pairs \ {p},
                             removed |-> saved.removed \cup {p}]
                /\ cur' = [cur EXCEPT ![t] = [c EXCEPT !.value = TRUE]]
                /\ pc' = [pc EXCEPT ![t] = "save_open"]
           ELSE /\ cur' = [cur EXCEPT ![t] = StoreDone(c, "returned", FALSE)]
                /\ pc' = [pc EXCEPT ![t] = "return"]
                /\ UNCHANGED <<cache, saved>>
    /\ UNCHANGED <<now, usage, file, lock, world, disk, moreVars>>

\* lines 66-69: self.cache.clear() empties a dict and a list alike
clear(t) ==
    /\ pc[t] = "idle"
    /\ LockAvailable(t)
    /\ store_lock' = t
    /\ cache' = IF cache.type = "dict" THEN PyDict(Empty) ELSE PyList(0)
    /\ saved' = [NoSaves EXCEPT !.removed = saved.removed]
    /\ cur' = [cur EXCEPT ![t] = StoreCall(t, "clear", NoSave.pair, None)]
    /\ pc' = [pc EXCEPT ![t] = "save_open"]
    /\ UNCHANGED <<now, usage, file, lock, world, disk, moreVars>>

\* _save_cache, lines 35-38: the directory is made, the temporary file created
save_cache_open(t) ==
    /\ pc[t] = "save_open"
    /\ disk' = [disk EXCEPT ![NamedTemporaryFile(t)] = Truncated]
    /\ pc' = [pc EXCEPT ![t] = "save_dump"]
    /\ UNCHANGED <<now, usage, file, lock, world, cur, cache, store_lock, saved, moreVars>>

\* _save_cache, lines 39-40: the map as it is now is written and the file closed
save_cache_dump(t) ==
    /\ pc[t] = "save_dump"
    /\ disk' = [disk EXCEPT ![NamedTemporaryFile(t)] = json_dump(cache)]
    /\ pc' = [pc EXCEPT ![t] = "save_replace"]
    /\ UNCHANGED <<now, usage, file, lock, world, cur, cache, store_lock, saved, moreVars>>

\* _save_cache, line 41: os.replace(temp_name, self.cache_path)
save_cache_replace(t) ==
    /\ pc[t] = "save_replace"
    /\ LET temp_name == NamedTemporaryFile(t)
       IN  disk' = [p \in Paths |->
                       IF p = CachePath THEN disk[temp_name]
                       ELSE IF p = temp_name THEN Absent
                       ELSE disk[p]]
    /\ pc' = [pc EXCEPT ![t] = "return"]
    /\ cur' = [cur EXCEPT ![t] = StoreDone(cur[t], "returned", cur[t].value)]
    /\ UNCHANGED <<now, usage, file, lock, world, cache, store_lock, saved, moreVars>>

\* the with-block is left and the call returns or raises
store_return(t) ==
    /\ pc[t] = "return"
    /\ pc' = [pc EXCEPT ![t] = "idle"]
    /\ cur' = [cur EXCEPT ![t] =
                  StoreIdle(IF world.workers /\ cur[t].op = "save" /\ cur[t].outcome = "returned"
                            THEN [pair |-> cur[t].pair, val |-> cur[t].val]
                            ELSE NoSave)]
    /\ store_lock' = IF store_lock = t THEN NoThread ELSE store_lock
    /\ UNCHANGED <<now, usage, file, lock, world, cache, disk, saved, moreVars>>

\* lines 18-21: a later CacheStore(cache_path) over the same file, once every
\* call has returned
CacheStore_new(t) ==
    /\ \A x \in world.threads : pc[x] = "idle"
    /\ cache' = load_cache(disk[CachePath])
    /\ store_lock' = NoThread
    /\ saved' = [saved EXCEPT !.latest =
                    [k \in DOMAIN saved.latest |-> [saved.latest[k] EXCEPT !.kept = TRUE]]]
    /\ cur' = [cur EXCEPT ![t] =
                  StoreDone(StoreCall(t, "CacheStore", NoSave.pair, None), "returned", None)]
    /\ pc' = [pc EXCEPT ![t] = "return"]
    /\ UNCHANGED <<now, usage, file, lock, world, disk, moreVars>>

NextStore ==
    \/ \E t \in world.threads : \E p \in world.store_pairs : get(t, p)
    \/ \E t \in world.threads : \E p \in world.store_pairs : has(t, p)
    \/ \E t \in world.threads : size(t)
    \/ \E t \in world.threads : \E p \in world.store_pairs, v \in world.results : save(t, p, v)
    \/ \E t \in world.threads : \E p \in world.store_pairs : remove(t, p)
    \/ \E t \in world.threads : clear(t)
    \/ \E t \in world.threads : save_cache_open(t)
    \/ \E t \in world.threads : save_cache_dump(t)
    \/ \E t \in world.threads : save_cache_replace(t)
    \/ \E t \in world.threads : store_return(t)
    \/ \E t \in world.threads : CacheStore_new(t)

\* two threads over a store that has no file yet
InitStore ==
    StoreConstructed(NoFiles,
                     StoreCallers(Threads, {P_plain, P_ns, P_task}, {R_text, R_empty}))

SpecStore == InitStore /\ [][NextStore]_vars

----------------------------------------------------------------------------
(* C14 *)

StoreReturned(t, op) ==
    pc[t] = "return" /\ cur[t].op = op /\ cur[t].outcome = "returned"

\* the digest a pair is stored under
Digest(p) == [hexdigest |-> p.agent_name \o <<":", ":">> \o p.task]

\* C14: get(content, namespace) returns exactly the value of the latest save
\* under that pair's key, whatever was saved under other keys in between, and
\* so does a CacheStore constructed afterwards over the same file, which holds
\* exactly the latest value of every key.
C14_RoundTrip ==
    /\ \A t \in world.threads : StoreReturned(t, "get") =>
         LET key == Digest(cur[t].pair)
         IN  cur[t].value = IF key \in DOMAIN saved.latest
                            THEN saved.latest[key].val ELSE None
    /\ \A t \in world.threads : StoreReturned(t, "CacheStore") =>
         /\ cache.type = "dict"
         /\ DOMAIN cache.items = DOMAIN saved.latest
         /\ \A k \in DOMAIN cache.items : cache.items[k] = saved.latest[k].val

\* get returns the empty string saved before the store was constructed anew,
\* after a save under another key
C14_Witness ==
    \E t \in world.threads :
        /\ StoreReturned(t, "get")
        /\ cur[t].value = R_empty
        /\ saved.latest[Digest(cur[t].pair)].kept
        /\ \E k \in DOMAIN saved.latest : ~saved.latest[k].kept

----------------------------------------------------------------------------
(* C15 *)

\* C15: the key is a function of the pair, and the pairs that differ have
\* different keys: the key of a call's pair differs from the key of every other
\* pair saved, and what is saved under one pair is never returned by get or has
\* for another: for a pair that is not saved, get returns None and has False.
C15_AsClaimed ==
    \A t \in world.threads : (StoreReturned(t, "get") \/ StoreReturned(t, "has")) =>
        LET c == cur[t]
        IN  /\ \A q \in c.hist : q # c.pair =>
                   compute_hash(q.task, q.agent_name)
                       # compute_hash(c.pair.task, c.pair.agent_name)
            /\ c.pair \notin c.hist =>
                   /\ c.op = "get" => c.value = None
                   /\ c.op = "has" => c.value = FALSE

----------------------------------------------------------------------------
(* C16 *)

\* C16: remove(content, namespace) returns True exactly when an entry for the
\* pair was present; once it has returned True, has is False and get None for
\* the pair until the pair is saved again; when it returns False the map and
\* the file are as they were; the entries under other keys are as they were.
C16_AsClaimed ==
    /\ \A t \in world.threads : StoreReturned(t, "remove") =>
         LET c == cur[t]
             key == Digest(c.pair)
         IN  /\ c.value = (c.pair \in c.hist)
             /\ c.value = FALSE => (cache = c.before /\ disk[CachePath] = c.fbefore)
             /\ DOMAIN cache.items \ {key} = DOMAIN c.before.items \ {key}
             /\ \A k \in DOMAIN cache.items \ {key} : cache.items[k] = c.before.items[k]
    /\ \A t \in world.threads :
         (/\ StoreReturned(t, "get") \/ StoreReturned(t, "has")
          /\ cur[t].pair \in saved.removed) =>
             /\ cur[t].op = "get" => cur[t].value = None
             /\ cur[t].op = "has" => cur[t].value = FALSE

----------------------------------------------------------------------------
(* test_memory.py: the worker threads of test_concurrent_access *)

P_other == Pair(<<"t">>, <<"h">>)

\* what each worker saves, in the order of its loop: pairwise distinct pairs
\* with pairwise distinct keys; pairwise distinct pairs of which two write the
\* same f-string
Todos ==
    {[t \in Threads |-> IF t = "t1" THEN <<P_plain, P_ns>> ELSE <<P_other, P_task>>],
     [t \in Threads |-> IF t = "t1" THEN <<P_plain, Pair(<<"c">>, <<"a">>)>>
                        ELSE <<P_other, P_task>>],
     [t \in Threads |-> IF t = "t1" THEN <<P_ns, P_plain>> ELSE <<P_other, P_task>>]}

Range(s) == {s[i] : i \in DOMAIN s}

\* line 99: result = f"result {i}"
result(i) == Str(<<"r">> \o str(i))

\* line 97: the loop variable of worker t, the number of its saves so far
range_i(t) == Cardinality(Range(world.todo[t]) \cap saved.pairs)

\* lines 97-100: the next save of the loop
worker_save(t) ==
    /\ pc[t] = "idle"
    /\ cur[t].last = NoSave
    /\ range_i(t) < Len(world.todo[t])
    /\ save(t, world.todo[t][range_i(t) + 1], result(range_i(t)))

\* line 102: the get that follows the save
worker_get(t) ==
    /\ pc[t] = "idle"
    /\ cur[t].last # NoSave
    /\ get(t, cur[t].last.pair)

\* thread.join() has returned for every worker
Joined ==
    \A t \in world.threads :
        /\ pc[t] = "idle"
        /\ cur[t].last = NoSave
        /\ range_i(t) = Len(world.todo[t])

\* line 115: self.cache.size() once the workers are joined
test_size(t) ==
    /\ Joined
    /\ size(t)

NextSaves ==
    \/ \E t \in world.threads : worker_save(t)
    \/ \E t \in world.threads : worker_get(t)
    \/ \E t \in world.threads : save_cache_open(t)
    \/ \E t \in world.threads : save_cache_dump(t)
    \/ \E t \in world.threads : save_cache_replace(t)
    \/ \E t \in world.threads : store_return(t)
    \/ \E t \in world.threads : test_size(t)

InitSaves ==
    \E todo \in Todos :
        StoreConstructed(NoFiles,
                         [StoreCallers(Threads, UNION {Range(todo[t]) : t \in Threads}, {})
                            EXCEPT !.workers = TRUE, !.todo = todo])

SpecSaves == InitSaves /\ [][NextSaves]_vars

----------------------------------------------------------------------------
(* C17 *)

\* the saves the workers make in all: N threads, K saves each
NxK == Sum([t \in world.threads |-> Len(world.todo[t])], world.threads)

\* C17: N threads each save K pairwise distinct pairs on one CacheStore; in
\* every interleaving a get issued by a thread right after its own save returns
\* the value it saved, the store ends with exactly N x K entries and the
\* backing file finally holds all of them.
C17_AsClaimed ==
    /\ \A t \in world.threads : (StoreReturned(t, "get") /\ cur[t].prev # NoSave) =>
           cur[t].value = cur[t].prev.val
    /\ \A t \in world.threads : StoreReturned(t, "size") =>
           /\ cur[t].value = NxK
           /\ disk[CachePath].kind = "json"
           /\ disk[CachePath].value.type = "dict"
           /\ disk[CachePath].value.len = NxK

----------------------------------------------------------------------------
(* cache_store.py and storage.py: the writes step by step, and the crashes *)

\* the runs that follow the store's files and the runs that follow the
\* ledger's: two threads on a CacheStore, one thread on the TokenUsage
StoreRun ==
    StoreCallers(Threads, {P_plain, P_ns}, {R_text}) @@ [part |-> "store"]

LedgerRun ==
    Callers([t \in {"t1"} |-> {N_a}], {<<IntC(1), IntC(1)>>}) @@ [part |-> "ledger"]

\* storage.py lines 30-45 on the file of the disk: no file, a text that is no
\* JSON and a JSON text that is no dict read as {}
read_ledger(f) == IF f.kind = "json" THEN load(f.value) ELSE Empty

\* storage.save(usage) has returned for the last map it was called with; a
\* call with the map the file already holds leaves the file as it is and its
\* steps are not followed
Flushed == disk[LedgerPath] = json_dump(file)

\* storage.py lines 19-21: open(temp_path, 'w') creates or empties the file
storage_save_open ==
    /\ world.part = "ledger"
    /\ ~Flushed
    /\ disk[LedgerTemp] \notin {Truncated, json_dump(file)}
    /\ disk' = [disk EXCEPT ![LedgerTemp] = Truncated]
    /\ UNCHANGED <<now, usage, file, lock, pc, cur, world, cache, store_lock, saved, moreVars>>

\* storage.py line 22: json.dump(usage_data, f), and the file is closed
storage_save_dump ==
    /\ world.part = "ledger"
    /\ ~Flushed
    /\ disk[LedgerTemp] = Truncated
    /\ disk' = [disk EXCEPT ![LedgerTemp] = json_dump(file)]
    /\ UNCHANGED <<now, usage, file, lock, pc, cur, world, cache, store_lock, saved, moreVars>>

\* storage.py line 25: temp_path.replace(self.storage_path)
storage_save_replace ==
    /\ world.part = "ledger"
    /\ ~Flushed
    /\ disk[LedgerTemp] = json_dump(file)
    /\ disk' = [p \in Paths |->
                   IF p = LedgerPath THEN disk[LedgerTemp]
                   ELSE IF p = LedgerTemp THEN Absent
                   ELSE disk[p]]
    /\ UNCHANGED <<now, usage, file, lock, pc, cur, world, cache, store_lock, saved, moreVars>>

\* a step of the ledger is taken once the save of the step before is done
LedgerStep == world.part = "ledger" /\ Flushed

\* the process dies while a call on the store is under way and a new process
\* constructs the CacheStore over the files as they are
crash_store ==
    /\ world.part = "store"
    /\ \E t \in world.threads : pc[t] # "idle"
    /\ pc' = [t \in world.threads |-> "idle"]
    /\ cur' = [t \in world.threads |-> StoreIdle(NoSave)]
    /\ store_lock' = NoThread
    /\ cache' = load_cache(disk[CachePath])
    /\ saved' = NoSaves
    /\ UNCHANGED <<now, usage, file, lock, world, disk, moreVars>>

\* the process dies while a call on the ledger or a save is under way and a
\* new process constructs the TokenUsage over the files as they are
crash_ledger ==
    /\ world.part = "ledger"
    /\ ~Flushed \/ \E t \in world.threads : pc[t] # "idle"
    /\ pc' = [t \in world.threads |-> "idle"]
    /\ cur' = [t \in world.threads |-> NoCall]
    /\ lock' = NoThread
    /\ usage' = prune_expired(read_ledger(disk[LedgerPath]), now)
    /\ file' = usage'
    /\ UNCHANGED <<now, world, cache, disk, store_lock, saved, moreVars>>

NextCrash ==
    \/ world.part = "store" /\
         \E t \in world.threads : \E p \in world.store_pairs, v \in world.results : save(t, p, v)
    \/ world.part = "store" /\ \E t \in world.threads : \E p \in world.store_pairs : remove(t, p)
    \/ world.part = "store" /\ \E t \in world.threads : clear(t)
    \/ world.part = "store" /\ \E t \in world.threads : save_cache_open(t)
    \/ world.part = "store" /\ \E t \in world.threads : save_cache_dump(t)
    \/ world.part = "store" /\ \E t \in world.threads : save_cache_replace(t)
    \/ world.part = "store" /\ \E t \in world.threads : store_return(t)
    \/ crash_store
    \/ LedgerStep /\ Tick
    \/ LedgerStep /\ \E t \in world.threads : \E n \in world.names[t], p \in world.pairs :
                        log_tokens(t, n, p[1], p[2])
    \/ LedgerStep /\ \E t \in world.threads : log_check_system(t)
    \/ LedgerStep /\ \E t \in world.threads : log_apply(t)
    \/ LedgerStep /\ \E t \in world.threads : get_total_usage(t)
    \/ LedgerStep /\ \E t \in world.threads : reset_daily_usage(t)
    \/ LedgerStep /\ \E t \in world.threads : Return(t)
    \/ storage_save_open
    \/ storage_save_dump
    \/ storage_save_replace
    \/ crash_ledger

InitCrash ==
    \/ StoreConstructed(NoFiles, StoreRun)
    \/ Constructed(Empty, LedgerRun)

SpecCrash == InitCrash /\ [][NextCrash]_vars

----------------------------------------------------------------------------
(* C18 *)

\* a call that writes the store's file is under way in thread t
Writing(t) == pc[t] \in {"save_open", "save_dump", "save_replace"}

\* C18: at every instant, a crash at any step of save, remove, clear or of a
\* ledger save included, the file of the CacheStore and the file of the ledger
\* either do not exist or hold one complete serialized map, the one written
\* last or the one written before it, never a part of one.
C18_Atomic ==
    /\ \/ disk[CachePath].kind = "absent"
       \/ /\ disk[CachePath].kind = "json"
          /\ disk[CachePath].value.type = "dict"
          /\ \/ disk[CachePath].value = cache
             \/ \E t \in world.threads : Writing(t) /\ disk[CachePath].value = cur[t].before
    /\ \/ disk[LedgerPath].kind = "absent"
       \/ /\ disk[LedgerPath].kind = "json"
          /\ DOMAIN disk[LedgerPath].value \subseteq Names

\* a crash has left the beginning of a temporary file behind, and the file it
\* was to replace holds a complete map that is not empty
C18_Witness ==
    \/ /\ world.part = "store"
       /\ \A t \in world.threads : pc[t] = "idle"
       /\ \E p \in TempPaths : disk[p] = Truncated
       /\ disk[CachePath].kind = "json"
       /\ disk[CachePath].value.len > 0
    \/ /\ world.part = "ledger"
       /\ Flushed
       /\ disk[LedgerTemp] = Truncated
       /\ DOMAIN disk[LedgerPath].value # {}

----------------------------------------------------------------------------
(* cache_store.py: a CacheStore over a file that holds no map *)

\* the backing files found: the beginning of a JSON text, a text that is no
\* JSON, the JSON text of a list of two elements
BackingFiles == {Truncated, NotJson, Json(PyList(2))}

InitLoad ==
    \E f \in BackingFiles :
        StoreConstructed([NoFiles EXCEPT ![CachePath] = f],
                         StoreCallers(Threads, {P_plain, P_ns}, {R_text}))

SpecLoad == InitLoad /\ [][NextStore]_vars

----------------------------------------------------------------------------
(* C19 *)

\* C19: a CacheStore constructed over a file that cannot be parsed as a map of
\* strings starts with an empty map, and get, has, save, remove and size then
\* behave as on a new empty store: no call raises, the map holds exactly what
\* was saved since, and size returns the number of its keys.
C19_AsClaimed ==
    /\ \A t \in world.threads : pc[t] = "return" => cur[t].outcome = "returned"
    /\ cache.type = "dict"
    /\ DOMAIN cache.items = DOMAIN saved.latest
    /\ \A k \in DOMAIN cache.items : cache.items[k] = saved.latest[k].val
    /\ \A t \in world.threads : StoreReturned(t, "size") =>
           cur[t].value = Cardinality(DOMAIN saved.latest)

----------------------------------------------------------------------------
(* cache_store.py and token_usage.py: the writes that fail *)

\* _save_cache raises OSError from os.makedirs (line 35), from the temporary
\* file (lines 38-39) or from os.replace (line 41): the map stays as the call
\* has set it, the file as it was, and the error leaves the with-block
save_cache_fails(t) ==
    /\ pc[t] \in {"save_open", "save_dump", "save_replace"}
    /\ pc' = [pc EXCEPT ![t] = "return"]
    /\ cur' = [cur EXCEPT ![t] = StoreDone([cur[t] EXCEPT !.failed = TRUE], "raised", None)]
    /\ UNCHANGED <<now, usage, file, lock, world, cache, disk, store_lock, saved, moreVars>>

\* log_tokens lines 88-100 and 137-141: storage.save raises in the first
\* prune-and-save; the error is logged and raised again
log_tokens_prune_fails(t, agent_name, input_tokens, output_tokens) ==
    /\ pc[t] = "idle"
    /\ validate_agent_name(agent_name)
    /\ RLockAvailable(t)
    /\ lock' = t
    /\ LET pruned == prune_expired(usage, now)
           c == [Call("log_tokens", agent_name, input_tokens, output_tokens)
                   EXCEPT !.failed = TRUE]
       IN  /\ usage' = pruned
           /\ cur' = [cur EXCEPT ![t] = Done(c, "raised", Zero, pruned, file)]
    /\ pc' = [pc EXCEPT ![t] = "return"]
    /\ UNCHANGED <<now, file, world, cache, disk, store_lock, saved, moreVars>>

\* log_tokens lines 110-120 with get_total_usage lines 169-172: storage.save
\* raises inside get_total_usage, which returns a total of 0; the system check
\* and the warnings go on with it
log_check_system_save_fails(t) ==
    /\ pc[t] = "check_system"
    /\ LET c == [cur[t] EXCEPT !.failed = TRUE]
           v == validate_token_counts(c.inp, c.out)
           total_new == v[1] + v[2]
           pruned == prune_expired(usage, now)
           system_total == Zero.total + total_new
           agent_limit == get_agent_limit(c.name, Environ)
           warnings ==
               {w \in {"agent"} : NearingLimit(c.agent_total, agent_limit)}
               \cup {w \in {"system"} : NearingLimit(system_total, SYSTEM_DAILY_TOKEN_LIMIT)}
           c1 == [c EXCEPT !.t1 = now]
       IN  /\ usage' = pruned
           /\ IF SystemLimitExceeded(system_total)
              THEN /\ pc' = [pc EXCEPT ![t] = "return"]
                   /\ cur' = [cur EXCEPT ![t] =
                                 Done(c1, "system_limit", Zero, pruned, file)]
              ELSE /\ pc' = [pc EXCEPT ![t] = "apply"]
                   /\ cur' = [cur EXCEPT ![t] = [c1 EXCEPT !.warned = warnings]]
    /\ UNCHANGED <<now, file, lock, world, cache, disk, store_lock, saved, moreVars>>

\* log_tokens lines 122-141: the counts are added, storage.save raises; the
\* error is logged and raised again
log_apply_save_fails(t) ==
    /\ pc[t] = "apply"
    /\ LET c == [cur[t] EXCEPT !.failed = TRUE]
           v == validate_token_counts(c.inp, c.out)
           total_new == v[1] + v[2]
           old == IF c.name \in DOMAIN usage THEN usage[c.name]
                  ELSE [input |-> 0, output |-> 0, total |-> 0, last_updated |-> now]
           rec == [input |-> old.input + v[1], output |-> old.output + v[2],
                   total |-> old.total + total_new, last_updated |-> now]
           u == [a \in DOMAIN usage \cup {c.name} |->
                    IF a = c.name THEN rec ELSE usage[a]]
       IN  /\ usage' = u
           /\ cur' = [cur EXCEPT ![t] = Done(c, "raised", Zero, u, file)]
    /\ pc' = [pc EXCEPT ![t] = "return"]
    /\ UNCHANGED <<now, file, lock, world, cache, disk, store_lock, saved, moreVars>>

\* get_total_usage lines 155-172: storage.save raises in the prune-and-save;
\* except Exception logs it and the call returns zeros
get_total_usage_save_fails(t) ==
    /\ pc[t] = "idle"
    /\ RLockAvailable(t)
    /\ lock' = t
    /\ LET pruned == prune_expired(usage, now)
           c == [Call("get_total_usage", N_empty, IntC(0), IntC(0)) EXCEPT !.failed = TRUE]
       IN  /\ usage' = pruned
           /\ cur' = [cur EXCEPT ![t] = Done(c, "returned", Zero, pruned, file)]
    /\ pc' = [pc EXCEPT ![t] = "return"]
    /\ UNCHANGED <<now, file, world, cache, disk, store_lock, saved, moreVars>>

\* reset_daily_usage lines 178-182: the ledger is cleared, storage.save raises
reset_daily_usage_save_fails(t) ==
    /\ pc[t] = "idle"
    /\ RLockAvailable(t)
    /\ lock' = t
    /\ usage' = Empty
    /\ cur' = [cur EXCEPT ![t] =
                  Done([Call("reset_daily_usage", N_empty, IntC(0), IntC(0))
                          EXCEPT !.failed = TRUE],
                       "raised", Zero, Empty, file)]
    /\ pc' = [pc EXCEPT ![t] = "return"]
    /\ UNCHANGED <<now, file, world, cache, disk, store_lock, saved, moreVars>>

NextFaults ==
    \/ world.part = "store" /\
         \E t \in world.threads : \E p \in world.store_pairs, v \in world.results : save(t, p, v)
    \/ world.part = "store" /\ \E t \in world.threads : \E p \in world.store_pairs : remove(t, p)
    \/ world.part = "store" /\ \E t \in world.threads : clear(t)
    \/ world.part = "store" /\ \E t \in world.threads : save_cache_open(t)
    \/ world.part = "store" /\ \E t \in world.threads : save_cache_dump(t)
    \/ world.part = "store" /\ \E t \in world.threads : save_cache_replace(t)
    \/ world.part = "store" /\ \E t \in world.threads : save_cache_fails(t)
    \/ world.part = "store" /\ \E t \in world.threads : store_return(t)
    \/ world.part = "ledger" /\ Tick
    \/ world.part = "ledger" /\
         \E t \in world.threads : \E n \in world.names[t], p \in world.pairs :
             log_tokens(t, n, p[1], p[2])
    \/ world.part = "ledger" /\
         \E t \in world.threads : \E n \in world.names[t], p \in world.pairs :
             log_tokens_prune_fails(t, n, p[1], p[2])
    \/ world.part = "ledger" /\ \E t \in world.threads : log_check_system(t)
    \/ world.part = "ledger" /\ \E t \in world.threads : log_check_system_save_fails(t)
    \/ world.part = "ledger" /\ \E t \in world.threads : log_apply(t)
    \/ world.part = "ledger" /\ \E t \in world.threads : log_apply_save_fails(t)
    \/ world.part = "ledger" /\ \E t \in world.threads : get_total_usage(t)
    \/ world.part = "ledger" /\ \E t \in world.threads : get_total_usage_save_fails(t)
    \/ world.part = "ledger" /\ \E t \in world.threads : reset_daily_usage(t)
    \/ world.part = "ledger" /\ \E t \in world.threads : reset_daily_usage_save_fails(t)
    \/ world.part = "ledger" /\ \E t \in world.threads : Return(t)

SpecFaults == InitCrash /\ [][NextFaults]_vars

----------------------------------------------------------------------------
(* C20 *)

\* C20: whenever making the directory, writing the temporary file or the
\* replace fails under save, remove, clear, log_tokens, reset_daily_usage or
\* the prune-and-save of get_total_usage, the call raises that failure to its
\* caller: it never returns normally.
C20_AsClaimed ==
    \A t \in world.threads :
        (pc[t] = "return" /\ cur[t].failed) => cur[t].outcome = "raised"

----------------------------------------------------------------------------
(* cache_manager.py: the registry and the CacheStore objects it hands out *)

\* the CacheStore objects a run makes at most
MaxStores == 3

A_x == <<"x">>
A_shared == <<"shared">>

\* cache_path=None, and a path given by the caller
NoPath == <<>>
GivenPath == <<"data/", "own", ".json">>

\* the threads of a run over the registry, the aliases and the paths they
\* pass, the pairs and the results they save
RegistryCallers(threads, aliases, paths, pairs, results) ==
    [threads |-> threads, aliases |-> aliases, paths |-> paths,
     store_pairs |-> pairs, results |-> results]

RegistryPaths(w) ==
    {SHARED_CACHE_PATH} \cup {AliasPath(a) : a \in w.aliases} \cup (w.paths \ {NoPath})

\* what was saved through the handles of each alias and not removed or cleared
\* since (expected), the alias each CacheStore object was made for (owner), the
\* aliases registered with a path of the caller's (given)
NoHandles ==
    [expected |-> [a \in {A_default} |-> Empty], owner |-> <<A_default>>, given |-> {}]

RegIdle == [op |-> "none"]

\* the call thread t is in, with the registry and the objects as they were when
\* it started and as its last step left them
RegCall(op, alias, path) ==
    [op |-> op, alias |-> alias, path |-> path, store |-> 0,
     reg_before |-> registry, stores_before |-> stores,
     reg_after |-> registry, stores_after |-> stores,
     todo |-> <<>>, outcome |-> "none", value |-> 0, stats |-> Empty]

\* the module is imported: no file yet
RegistryImported(w) ==
    /\ now = 0
    /\ usage = Empty
    /\ file = Empty
    /\ lock = NoThread
    /\ world = w
    /\ pc = [t \in w.threads |-> "idle"]
    /\ cur = [t \in w.threads |-> RegIdle]
    /\ cache = PyDict(Empty)
    /\ disk = [p \in RegistryPaths(w) |-> Absent]
    /\ store_lock = NoThread
    /\ saved = NoHandles
    /\ NothingMore(w)

\* with _registry_lock
RegistryLockAvailable(t) == registry_lock = NoThread

\* for ... in _cache_registry.items(): the objects in the order they were put in
RECURSIVE Ascending(_)
Ascending(S) ==
    IF S = {} THEN <<>>
    ELSE LET m == CHOOSE x \in S : \A y \in S : x <= y
         IN  <<m>> \o Ascending(S \ {m})

Items(reg) == Ascending({reg[a] : a \in DOMAIN reg})

\* lines 15-19
get_agent_cache(t, agent_name) ==
    /\ pc[t] = "idle"
    /\ RegistryLockAvailable(t)
    /\ registry_lock' = t
    /\ cur' = [cur EXCEPT ![t] =
                  [RegCall("get_agent_cache", agent_name, NoPath) EXCEPT
                      !.outcome = "returned",
                      !.value = IF agent_name \in DOMAIN registry
                                THEN registry[agent_name] ELSE shared_cache]]
    /\ pc' = [pc EXCEPT ![t] = "return"]
    /\ UNCHANGED <<ledgerVars, world, storeVars, registry, stores, ttlVars, singleton, frame>>

\* every alias is registered anew as a different object
register_cache_anew(alias, reg) == FALSE

\* line 32: if alias in _cache_registry
register_cache_known(alias, reg) == alias \in DOMAIN reg

\* lines 30-43
register_cache(t, alias, cache_path) ==
    /\ pc[t] = "idle"
    /\ RegistryLockAvailable(t)
    /\ registry_lock' = t
    /\ LET c == RegCall("register_cache", alias, cache_path)
       IN  IF register_cache_known(alias, registry)
           THEN /\ cur' = [cur EXCEPT ![t] =
                              [c EXCEPT !.outcome = "returned", !.value = registry[alias]]]
                /\ UNCHANGED <<registry, stores, saved>>
           ELSE /\ Len(stores) < MaxStores
                /\ LET path == IF cache_path = NoPath THEN AliasPath(alias) ELSE cache_path
                       new_cache == Store(path, load_cache(disk[path]))
                       id == Len(stores) + 1
                   IN  /\ stores' = Append(stores, new_cache)
                       /\ registry' = [a \in DOMAIN registry \cup {alias} |->
                                          IF a = alias THEN id ELSE registry[a]]
                       /\ saved' = [expected |->
                                        [a \in DOMAIN saved.expected \cup {alias} |->
                                            IF a \in DOMAIN saved.expected
                                            THEN saved.expected[a] ELSE Empty],
                                    owner |-> Append(saved.owner, alias),
                                    given |-> IF cache_path = NoPath THEN saved.given
                                              ELSE saved.given \cup {alias}]
                       /\ cur' = [cur EXCEPT ![t] =
                                     [c EXCEPT !.outcome = "returned", !.value = id,
                                               !.reg_after = registry',
                                               !.stores_after = stores']]
    /\ pc' = [pc EXCEPT ![t] = "return"]
    /\ UNCHANGED <<ledgerVars, world, cache, disk, store_lock, ttlVars, singleton, frame>>

\* "default" is unregistered like any alias
unregister_cache_protects_none(alias) == FALSE

\* line 48: if alias == "default"
unregister_cache_protects(alias) == alias = A_default

\* lines 46-54
unregister_cache(t, alias) ==
    /\ pc[t] = "idle"
    /\ RegistryLockAvailable(t)
    /\ registry_lock' = t
    /\ LET c == RegCall("unregister_cache", alias, NoPath)
       IN  IF ~unregister_cache_protects(alias) /\ alias \in DOMAIN registry
           THEN /\ registry' = [a \in DOMAIN registry \ {alias} |-> registry[a]]
                /\ cur' = [cur EXCEPT ![t] =
                              [c EXCEPT !.outcome = "returned", !.value = TRUE,
                                        !.reg_after = registry']]
           ELSE /\ cur' = [cur EXCEPT ![t] =
                              [c EXCEPT !.outcome = "returned", !.value = FALSE]]
                /\ UNCHANGED registry
    /\ pc' = [pc EXCEPT ![t] = "return"]
    /\ UNCHANGED <<ledgerVars, world, storeVars, stores, ttlVars, singleton, frame>>

\* lines 25-27 and 56-58: the registry lock is taken and the iteration begins
iterate_registry(t, op) ==
    /\ pc[t] = "idle"
    /\ RegistryLockAvailable(t)
    /\ registry_lock' = t
    /\ cur' = [cur EXCEPT ![t] = [RegCall(op, NoPath, NoPath) EXCEPT
                                     !.todo = Items(registry)]]
    /\ pc' = [pc EXCEPT ![t] = "iterate"]
    /\ UNCHANGED <<ledgerVars, world, storeVars, registry, stores, ttlVars, singleton, frame>>

clear_all_caches(t) == iterate_registry(t, "clear_all_caches")

get_cache_stats(t) == iterate_registry(t, "get_cache_stats")

\* line 28: cache.clear() on the next object, under that object's lock; the
\* map is emptied and the file written
clear_all_caches_next(t) ==
    /\ pc[t] = "iterate"
    /\ cur[t].op = "clear_all_caches"
    /\ cur[t].todo # <<>>
    /\ LET id == Head(cur[t].todo)
       IN  /\ stores[id].lock = NoThread
           /\ stores' = [stores EXCEPT ![id].cache = PyDict(Empty)]
           /\ disk' = [disk EXCEPT ![stores[id].cache_path] = json_dump(PyDict(Empty))]
           /\ saved' = [saved EXCEPT !.expected[saved.owner[id]] = Empty]
           /\ cur' = [cur EXCEPT ![t].todo = Tail(cur[t].todo),
                                 ![t].stores_after = stores']
    /\ UNCHANGED <<ledgerVars, world, pc, cache, store_lock, registry, registry_lock,
                   ttlVars, singleton, frame>>

\* line 58: cache.size() on the next object, under that object's lock
get_cache_stats_next(t) ==
    /\ pc[t] = "iterate"
    /\ cur[t].op = "get_cache_stats"
    /\ cur[t].todo # <<>>
    /\ LET id == Head(cur[t].todo)
       IN  /\ stores[id].lock = NoThread
           /\ cur' = [cur EXCEPT ![t].todo = Tail(cur[t].todo),
                                 ![t].stats = Put(cur[t].stats, id, stores[id].cache.len)]
    /\ UNCHANGED <<ledgerVars, world, pc, storeVars, registryVars, ttlVars, singleton, frame>>

\* the iteration is over
iterate_done(t) ==
    /\ pc[t] = "iterate"
    /\ cur[t].todo = <<>>
    /\ cur' = [cur EXCEPT ![t].outcome = "returned"]
    /\ pc' = [pc EXCEPT ![t] = "return"]
    /\ UNCHANGED <<ledgerVars, world, storeVars, registryVars, ttlVars, singleton, frame>>

\* CacheStore.save lines 55-59 through the handle id, from taking the store's
\* lock to leaving it
handle_save(t, id, p, v) ==
    /\ pc[t] = "idle"
    /\ stores[id].lock = NoThread
    /\ LET c == PyDict(Put(stores[id].cache.items, KeyOf(p), v))
       IN  /\ stores' = [stores EXCEPT ![id].cache = c]
           /\ disk' = [disk EXCEPT ![stores[id].cache_path] = json_dump(c)]
           /\ saved' = [saved EXCEPT !.expected[saved.owner[id]] =
                                         Put(saved.expected[saved.owner[id]], KeyOf(p), v)]
    /\ UNCHANGED <<ledgerVars, world, pc, cur, cache, store_lock, registry, registry_lock,
                   ttlVars, singleton, frame>>

\* CacheStore.remove lines 90-98 through the handle id, of an entry it holds
handle_remove(t, id, p) ==
    /\ pc[t] = "idle"
    /\ stores[id].lock = NoThread
    /\ LET key == KeyOf(p)
       IN  /\ key \in DOMAIN stores[id].cache.items
           /\ LET m == PyDict(Del(stores[id].cache.items, key))
              IN  /\ stores' = [stores EXCEPT ![id].cache = m]
                  /\ disk' = [disk EXCEPT ![stores[id].cache_path] = json_dump(m)]
                  /\ saved' = [saved EXCEPT !.expected[saved.owner[id]] =
                                                Del(saved.expected[saved.owner[id]], key)]
    /\ UNCHANGED <<ledgerVars, world, pc, cur, cache, store_lock, registry, registry_lock,
                   ttlVars, singleton, frame>>

\* CacheStore.clear lines 66-69 through the handle id
handle_clear(t, id) ==
    /\ pc[t] = "idle"
    /\ stores[id].lock = NoThread
    /\ stores' = [stores EXCEPT ![id].cache = PyDict(Empty)]
    /\ disk' = [disk EXCEPT ![stores[id].cache_path] = json_dump(PyDict(Empty))]
    /\ saved' = [saved EXCEPT !.expected[saved.owner[id]] = Empty]
    /\ UNCHANGED <<ledgerVars, world, pc, cur, cache, store_lock, registry, registry_lock,
                   ttlVars, singleton, frame>>

\* the with-blocks are left and the call returns
registry_return(t) ==
    /\ pc[t] = "return"
    /\ pc' = [pc EXCEPT ![t] = "idle"]
    /\ cur' = [cur EXCEPT ![t] = RegIdle]
    /\ registry_lock' = IF registry_lock = t THEN NoThread ELSE registry_lock
    /\ stores' = [i \in DOMAIN stores |->
                     IF stores[i].lock = t THEN [stores[i] EXCEPT !.lock = NoThread]
                     ELSE stores[i]]
    /\ UNCHANGED <<ledgerVars, world, storeVars, registry, ttlVars, singleton, frame>>

\* two threads on the registry, saving through the handles
NextRegistry ==
    \/ \E t \in world.threads : \E a \in world.aliases : get_agent_cache(t, a)
    \/ \E t \in world.threads : \E a \in world.aliases, p \in world.paths :
           register_cache(t, a, p)
    \/ \E t \in world.threads : \E a \in world.aliases : unregister_cache(t, a)
    \/ \E t \in world.threads : clear_all_caches(t)
    \/ \E t \in world.threads : clear_all_caches_next(t)
    \/ \E t \in world.threads : iterate_done(t)
    \/ \E t \in world.threads : \E id \in DOMAIN stores :
           \E p \in world.store_pairs, v \in world.results : handle_save(t, id, p, v)
    \/ \E t \in world.threads : registry_return(t)

InitRegistry ==
    RegistryImported(RegistryCallers(Threads, {A_default, A_x}, {NoPath, GivenPath},
                                     {P_plain}, {R_text}))

SpecRegistry == InitRegistry /\ [][NextRegistry]_vars

----------------------------------------------------------------------------
(* C21 *)

RegReturned(t, op) ==
    pc[t] = "return" /\ cur[t].op = op /\ cur[t].outcome = "returned"

\* C21: whatever register_cache, unregister_cache and clear_all_caches calls
\* were made, "default" is registered to the shared store the module made;
\* unregister_cache("default") returns False and changes nothing;
\* get_agent_cache(alias) returns the store registered under alias if there is
\* one and the shared store otherwise, always a store.
C21_DefaultKept ==
    /\ A_default \in DOMAIN registry
    /\ registry[A_default] = 1
    /\ stores[1].cache_path = SHARED_CACHE_PATH
    /\ \A t \in world.threads :
         (RegReturned(t, "unregister_cache") /\ cur[t].alias = A_default) =>
             /\ cur[t].value = FALSE
             /\ cur[t].reg_after = cur[t].reg_before
             /\ cur[t].stores_after = cur[t].stores_before
    /\ \A t \in world.threads : (pc[t] = "return" /\ cur[t].op = "get_agent_cache") =>
             /\ cur[t].outcome = "returned"
             /\ cur[t].value \in DOMAIN stores
             /\ cur[t].value = IF cur[t].alias \in DOMAIN cur[t].reg_before
                               THEN cur[t].reg_before[cur[t].alias] ELSE 1

\* unregister_cache("default") has returned False after another alias was
\* registered, saved to and unregistered
C21_Witness ==
    \E t \in world.threads :
        /\ RegReturned(t, "unregister_cache")
        /\ cur[t].alias = A_default
        /\ cur[t].value = FALSE
        /\ A_x \notin DOMAIN registry
        /\ \E id \in DOMAIN stores : id # 1 /\ stores[id].cache.len > 0

----------------------------------------------------------------------------
(* C22 *)

\* C22: while an alias stays registered, register_cache(alias, ...), with or
\* without a path and from any thread, returns the object registered under it
\* and leaves the registry and the objects as they were; a registration of an
\* alias that is not registered makes exactly one new object and registers it.
C22_Idempotent ==
    \A t \in world.threads : RegReturned(t, "register_cache") =>
        LET c == cur[t]
        IN  /\ c.alias \in DOMAIN c.reg_before =>
                   /\ c.value = c.reg_before[c.alias]
                   /\ c.reg_after = c.reg_before
                   /\ c.stores_after = c.stores_before
            /\ c.alias \notin DOMAIN c.reg_before =>
                   /\ Len(c.stores_after) = Len(c.stores_before) + 1
                   /\ c.value = Len(c.stores_after)
                   /\ DOMAIN c.reg_after = DOMAIN c.reg_before \cup {c.alias}
                   /\ c.reg_after[c.alias] = c.value
                   /\ \A a \in DOMAIN c.reg_before : c.reg_after[a] = c.reg_before[a]

\* register_cache with a path has returned the object registered before, which
\* holds an entry
C22_Witness ==
    \E t \in world.threads :
        /\ RegReturned(t, "register_cache")
        /\ cur[t].alias = A_x
        /\ cur[t].path = GivenPath
        /\ A_x \in DOMAIN cur[t].reg_before
        /\ stores[cur[t].value].cache.len > 0

----------------------------------------------------------------------------
(* ingestion/opencti/cache.py: the cache with expiry *)

\* time.time() goes from 0 to MaxSeconds
MaxSeconds == 3

\* the lists of records the ingestors store
D_1 == [type |-> "list", id |-> 1]
D_2 == [type |-> "list", id |-> 2]

\* keys f"{ClassName}:{operation}" of the classes F, FG and G
K_F == <<"F", ":", "a">>
K_FG == <<"F", "G", ":", "a">>
K_G == <<"G", ":", "a">>

\* str.startswith
startswith_any(k, prefix) == TRUE

startswith(k, prefix) ==
    Len(prefix) <= Len(k) /\ SubSeq(k, 1, Len(prefix)) = prefix

\* current_time <= expiry
NotExpired_inclusive(current_time, expiry) == current_time <= expiry

\* line 18: current_time < _cache_expiry.get(cache_key, 0)
NotExpired(current_time, expiry) == current_time < expiry

\* the caller of the cache functions, the keys, the lists, the use_cache flags,
\* the lifetimes and the class names it passes
TtlCallers(threads, keys, datas, flags, ttls, classes) ==
    [threads |-> threads, keys |-> keys, datas |-> datas, flags |-> flags,
     ttls |-> ttls, classes |-> classes]

TtlIdle == [op |-> "none"]

\* the call thread t is in, with the two dicts as they were when it started
TtlCall(op, key, data, use_cache, ttl) ==
    [op |-> op, key |-> key, data |-> data, use_cache |-> use_cache, ttl |-> ttl,
     current_time |-> 0, data_before |-> data_cache, expiry_before |-> cache_expiry,
     outcome |-> "none", value |-> None]

\* lines 8-9: the module is imported
TtlImported(w) ==
    /\ now = 0
    /\ usage = Empty
    /\ file = Empty
    /\ lock = NoThread
    /\ world = w
    /\ pc = [t \in w.threads |-> "idle"]
    /\ cur = [t \in w.threads |-> TtlIdle]
    /\ cache = PyDict(Empty)
    /\ disk = NoFiles
    /\ store_lock = NoThread
    /\ saved = Empty
    /\ NothingMore(w)

\* time passes between two statements
sleep ==
    /\ \A t \in world.threads : pc[t] # "return"
    /\ now < MaxSeconds
    /\ now' = now + 1
    /\ UNCHANGED <<usage, file, lock, pc, cur, world, storeVars, moreVars>>

\* lines 12-17: without use_cache nothing is looked up; else the clock is read
get_from_cache(t, cache_key, use_cache) ==
    /\ pc[t] = "idle"
    /\ LET c == TtlCall("get_from_cache", cache_key, None, use_cache, 0)
       IN  IF ~use_cache
           THEN /\ cur' = [cur EXCEPT ![t] = [c EXCEPT !.outcome = "returned"]]
                /\ pc' = [pc EXCEPT ![t] = "return"]
           ELSE /\ cur' = [cur EXCEPT ![t] = [c EXCEPT !.current_time = now]]
                /\ pc' = [pc EXCEPT ![t] = "get_lookup"]
    /\ UNCHANGED <<ledgerVars, world, storeVars, moreVars>>

\* lines 18-21
get_from_cache_lookup(t) ==
    /\ pc[t] = "get_lookup"
    /\ LET c == cur[t]
           expiry == IF c.key \in DOMAIN cache_expiry THEN cache_expiry[c.key] ELSE 0
           hit == c.key \in DOMAIN data_cache /\ NotExpired(c.current_time, expiry)
       IN  cur' = [cur EXCEPT ![t] =
                      [c EXCEPT !.outcome = "returned",
                                !.value = IF hit THEN data_cache[c.key] ELSE None]]
    /\ pc' = [pc EXCEPT ![t] = "return"]
    /\ UNCHANGED <<ledgerVars, world, storeVars, moreVars>>

\* lines 23-29: without use_cache nothing is stored; else the list is put in
store_in_cache(t, cache_key, data, use_cache, cache_ttl) ==
    /\ pc[t] = "idle"
    /\ LET c == TtlCall("store_in_cache", cache_key, data, use_cache, cache_ttl)
       IN  IF ~use_cache
           THEN /\ cur' = [cur EXCEPT ![t] = [c EXCEPT !.outcome = "returned"]]
                /\ pc' = [pc EXCEPT ![t] = "return"]
                /\ UNCHANGED data_cache
           ELSE /\ data_cache' = Put(data_cache, cache_key, data)
                /\ cur' = [cur EXCEPT ![t] = c]
                /\ pc' = [pc EXCEPT ![t] = "store_expiry"]
    /\ UNCHANGED <<ledgerVars, world, storeVars, registryVars, cache_expiry, singleton, frame>>

\* line 30: _cache_expiry[cache_key] = time.time() + cache_ttl
store_in_cache_expiry(t) ==
    /\ pc[t] = "store_expiry"
    /\ cache_expiry' = Put(cache_expiry, cur[t].key, now + cur[t].ttl)
    /\ saved' = Put(saved, cur[t].key,
                    [data |-> cur[t].data, at |-> now, ttl |-> cur[t].ttl])
    /\ cur' = [cur EXCEPT ![t].outcome = "returned"]
    /\ pc' = [pc EXCEPT ![t] = "return"]
    /\ UNCHANGED <<ledgerVars, world, cache, disk, store_lock, registryVars, data_cache,
                   singleton, frame>>

\* lines 33-41
invalidate_cache_prefix(t, prefix) ==
    /\ pc[t] = "idle"
    /\ LET keys_to_delete == {k \in DOMAIN data_cache : startswith(k, prefix)}
       IN  /\ data_cache' = [k \in DOMAIN data_cache \ keys_to_delete |-> data_cache[k]]
           /\ cache_expiry' = [k \in DOMAIN cache_expiry \ keys_to_delete |-> cache_expiry[k]]
           /\ saved' = [k \in DOMAIN saved \ keys_to_delete |-> saved[k]]
    /\ cur' = [cur EXCEPT ![t] =
                  [TtlCall("invalidate_cache_prefix", prefix, None, TRUE, 0)
                      EXCEPT !.outcome = "returned"]]
    /\ pc' = [pc EXCEPT ![t] = "return"]
    /\ UNCHANGED <<ledgerVars, world, cache, disk, store_lock, registryVars, singleton, frame>>

\* base.py lines 24-27: prefix = self.__class__.__name__
invalidate_cache(t, class_name) == invalidate_cache_prefix(t, class_name)

\* lines 43-48
ttl_clear_all_caches(t) ==
    /\ pc[t] = "idle"
    /\ data_cache' = Empty
    /\ cache_expiry' = Empty
    /\ saved' = Empty
    /\ cur' = [cur EXCEPT ![t] =
                  [TtlCall("clear_all_caches", <<>>, None, TRUE, 0)
                      EXCEPT !.outcome = "returned"]]
    /\ pc' = [pc EXCEPT ![t] = "return"]
    /\ UNCHANGED <<ledgerVars, world, cache, disk, store_lock, registryVars, singleton, frame>>

ttl_return(t) ==
    /\ pc[t] = "return"
    /\ pc' = [pc EXCEPT ![t] = "idle"]
    /\ cur' = [cur EXCEPT ![t] = TtlIdle]
    /\ UNCHANGED <<ledgerVars, world, storeVars, moreVars>>

NextTtl ==
    \/ sleep
    \/ \E t \in world.threads : \E k \in world.keys, u \in world.flags :
           get_from_cache(t, k, u)
    \/ \E t \in world.threads : get_from_cache_lookup(t)
    \/ \E t \in world.threads :
           \E k \in world.keys, d \in world.datas, u \in world.flags, ttl \in world.ttls :
               store_in_cache(t, k, d, u, ttl)
    \/ \E t \in world.threads : store_in_cache_expiry(t)
    \/ \E t \in world.threads : \E n \in world.classes : invalidate_cache(t, n)
    \/ \E t \in world.threads : ttl_clear_all_caches(t)
    \/ \E t \in world.threads : ttl_return(t)

\* one caller, as the ingestors call the cache from one thread
InitTtl ==
    TtlImported(TtlCallers({"t1"}, {K_F, K_FG, K_G}, {D_1, D_2}, {TRUE, FALSE},
                           {0, 2}, {<<"F">>, <<"F", "G">>, <<"G">>}))

SpecTtl == InitTtl /\ [][NextTtl]_vars

----------------------------------------------------------------------------
(* C23 *)

TtlReturned(t, op) ==
    pc[t] = "return" /\ cur[t].op = op /\ cur[t].outcome = "returned"

\* C23: get_from_cache(key) returns the list of the most recent
\* store_in_cache(key, list, ttl) exactly when the key was stored, not
\* invalidated or cleared since, and the time it reads is strictly before the
\* time of that store plus ttl; otherwise it returns None.
C23_Fresh ==
    \A t \in world.threads : (TtlReturned(t, "get_from_cache") /\ cur[t].use_cache) =>
        LET c == cur[t]
        IN  c.value = IF /\ c.key \in DOMAIN saved
                         /\ c.current_time < saved[c.key].at + saved[c.key].ttl
                      THEN saved[c.key].data
                      ELSE None

\* get_from_cache returns None at the very instant of expiry for an entry that
\* is still in the dict
C23_Witness ==
    \E t \in world.threads :
        /\ TtlReturned(t, "get_from_cache")
        /\ cur[t].use_cache
        /\ cur[t].value = None
        /\ cur[t].key \in DOMAIN data_cache
        /\ saved[cur[t].key].ttl > 0
        /\ cur[t].current_time = saved[cur[t].key].at + saved[cur[t].key].ttl

----------------------------------------------------------------------------
(* C24 *)

BeginsWith(k, prefix) == \E n \in 0..Len(k) : SubSeq(k, 1, n) = prefix

\* C24: invalidate_cache_prefix(prefix) removes the list and the expiry of
\* every key that starts with prefix and leaves the list and the expiry of
\* every other key as they were; an ingestor's invalidate_cache does so with
\* its class name.
C24_PrefixOnly ==
    \A t \in world.threads : TtlReturned(t, "invalidate_cache_prefix") =>
        LET c == cur[t]
        IN  \A k \in DOMAIN c.data_before \cup DOMAIN c.expiry_before :
                IF BeginsWith(k, c.key)
                THEN k \notin DOMAIN data_cache /\ k \notin DOMAIN cache_expiry
                ELSE /\ k \in DOMAIN data_cache <=> k \in DOMAIN c.data_before
                     /\ k \in DOMAIN cache_expiry <=> k \in DOMAIN c.expiry_before
                     /\ k \in DOMAIN data_cache => data_cache[k] = c.data_before[k]
                     /\ k \in DOMAIN cache_expiry => cache_expiry[k] = c.expiry_before[k]

\* the entries of the classes F and FG are gone, that of G is as it was
C24_Witness ==
    \E t \in world.threads :
        /\ TtlReturned(t, "invalidate_cache_prefix")
        /\ cur[t].key = <<"F">>
        /\ {K_F, K_FG, K_G} \subseteq DOMAIN cur[t].data_before
        /\ DOMAIN data_cache = {K_G}
        /\ DOMAIN cache_expiry = {K_G}

----------------------------------------------------------------------------
(* token_usage.py: TokenUsage.__new__ and the objects it makes *)

\* the objects a run makes at most, the calls of log_tokens it makes at most
MaxObjects == 2
MaxLogged == 2

\* a TokenUsage object: without attributes, with usage = {} (line 52), with
\* the ledger loaded (line 55); its ledger is the number of tokens logged
Object(state, tokens) == [state |-> state, usage |-> tokens]

\* the handle a thread keeps: the object its TokenUsage() returned, 0 for none
Handle(id) == [op |-> "handle", handle |-> id]

SingletonIdle == [op |-> "none"]

NewCall(op) == [op |-> op, self |-> 0, outcome |-> "none", value |-> 0]

\* line 35: _instance is None; the ledger file holds no token
ClassDefined(w) ==
    /\ now = 0
    /\ usage = Empty
    /\ file = 0
    /\ lock = NoThread
    /\ world = w
    /\ pc = [t \in w.threads |-> "idle"]
    /\ cur = [t \in w.threads |-> SingletonIdle]
    /\ cache = PyDict(Empty)
    /\ disk = NoFiles
    /\ store_lock = NoThread
    /\ saved = 0
    /\ registry = [a \in {A_default} |-> shared_cache]
    /\ stores = <<Store(SHARED_CACHE_PATH, PyDict(Empty))>>
    /\ registry_lock = NoThread
    /\ data_cache = Empty
    /\ cache_expiry = Empty
    /\ singleton = [instance |-> 0, objects |-> <<>>]
    /\ frame = [t \in w.threads |-> Handle(0)]

\* line 40: if cls._instance is None
new_test(t) ==
    /\ pc[t] = "idle"
    /\ frame[t].handle = 0
    /\ cur' = [cur EXCEPT ![t] = NewCall("TokenUsage")]
    /\ pc' = [pc EXCEPT ![t] = IF singleton.instance = 0 THEN "new_object" ELSE "new_return"]
    /\ UNCHANGED <<ledgerVars, world, storeVars, moreVars>>

\* line 41: cls._instance = super().__new__(cls)
new_object(t) ==
    /\ pc[t] = "new_object"
    /\ Len(singleton.objects) < MaxObjects
    /\ singleton' = [instance |-> Len(singleton.objects) + 1,
                     objects |-> Append(singleton.objects, Object("new", 0))]
    /\ pc' = [pc EXCEPT ![t] = "new_init"]
    /\ UNCHANGED <<ledgerVars, cur, world, storeVars, registryVars, ttlVars, frame>>

\* lines 42 and 50-54: cls._instance is read again and its _init begins
new_init(t) ==
    /\ pc[t] = "new_init"
    /\ cur' = [cur EXCEPT ![t].self = singleton.instance]
    /\ singleton' = [singleton EXCEPT !.objects[singleton.instance] = Object("empty", 0)]
    /\ pc' = [pc EXCEPT ![t] = "new_load"]
    /\ UNCHANGED <<ledgerVars, world, storeVars, registryVars, ttlVars, frame>>

\* lines 55 and 195-199: _load_usage under the lock: load, prune, save
new_load(t) ==
    /\ pc[t] = "new_load"
    /\ RLockAvailable(t)
    /\ singleton' = [singleton EXCEPT !.objects[cur[t].self] = Object("loaded", file)]
    /\ pc' = [pc EXCEPT ![t] = "new_return"]
    /\ UNCHANGED <<ledgerVars, cur, world, storeVars, registryVars, ttlVars, frame>>

\* line 43: return cls._instance
new_return(t) ==
    /\ pc[t] = "new_return"
    /\ cur' = [cur EXCEPT ![t].outcome = "returned", ![t].value = singleton.instance]
    /\ frame' = [frame EXCEPT ![t] = Handle(singleton.instance)]
    /\ pc' = [pc EXCEPT ![t] = "return"]
    /\ UNCHANGED <<ledgerVars, world, storeVars, registryVars, ttlVars, singleton>>

\* log_tokens through the handle of thread t, lines 88-141 for one token of an
\* agent under its limits: an object without usage or without storage (lines
\* 52-53 not run yet) raises AttributeError
handle_log_tokens(t) ==
    /\ pc[t] = "idle"
    /\ frame[t].handle # 0
    /\ RLockAvailable(t)
    /\ saved < MaxLogged
    /\ LET self == frame[t].handle
           c == [NewCall("log_tokens") EXCEPT !.self = self]
       IN  IF singleton.objects[self].state # "loaded"
           THEN /\ cur' = [cur EXCEPT ![t] = [c EXCEPT !.outcome = "raised"]]
                /\ UNCHANGED <<singleton, file, saved>>
           ELSE /\ singleton' = [singleton EXCEPT !.objects[self].usage = @ + 1]
                /\ file' = singleton.objects[self].usage + 1
                /\ saved' = saved + 1
                /\ cur' = [cur EXCEPT ![t] = [c EXCEPT !.outcome = "returned"]]
    /\ pc' = [pc EXCEPT ![t] = "return"]
    /\ UNCHANGED <<now, usage, lock, world, cache, disk, store_lock, registryVars,
                   ttlVars, frame>>

\* get_usage through the handle of thread t, lines 143-153
handle_get_usage(t) ==
    /\ pc[t] = "idle"
    /\ frame[t].handle # 0
    /\ RLockAvailable(t)
    /\ LET self == frame[t].handle
           c == [NewCall("get_usage") EXCEPT !.self = self]
       IN  cur' = [cur EXCEPT ![t] =
                      IF singleton.objects[self].state = "new"
                      THEN [c EXCEPT !.outcome = "raised"]
                      ELSE [c EXCEPT !.outcome = "returned",
                                     !.value = singleton.objects[self].usage]]
    /\ pc' = [pc EXCEPT ![t] = "return"]
    /\ UNCHANGED <<ledgerVars, world, storeVars, moreVars>>

singleton_return(t) ==
    /\ pc[t] = "return"
    /\ pc' = [pc EXCEPT ![t] = "idle"]
    /\ cur' = [cur EXCEPT ![t] = SingletonIdle]
    /\ UNCHANGED <<ledgerVars, world, storeVars, moreVars>>

NextSingleton ==
    \/ \E t \in world.threads : new_test(t)
    \/ \E t \in world.threads : new_object(t)
    \/ \E t \in world.threads : new_init(t)
    \/ \E t \in world.threads : new_load(t)
    \/ \E t \in world.threads : new_return(t)
    \/ \E t \in world.threads : handle_log_tokens(t)
    \/ \E t \in world.threads : handle_get_usage(t)
    \/ \E t \in world.threads : singleton_return(t)

InitSingleton == ClassDefined([threads |-> Threads])

SpecSingleton == InitSingleton /\ [][NextSingleton]_vars

----------------------------------------------------------------------------
(* C25 *)

\* C25: with no reset in between, every TokenUsage() returns the same object,
\* the object has its ledger loaded when it is returned, no call through a
\* handle fails, and what was logged through any handle is what get_usage
\* returns through every handle.
C25_AsClaimed ==
    /\ \A t1, t2 \in world.threads :
         (frame[t1].handle # 0 /\ frame[t2].handle # 0) => frame[t1].handle = frame[t2].handle
    /\ \A t \in world.threads :
         (pc[t] = "return" /\ cur[t].op = "TokenUsage") =>
             singleton.objects[cur[t].value].state = "loaded"
    /\ \A t \in world.threads : pc[t] = "return" => cur[t].outcome = "returned"
    /\ \A t \in world.threads :
         (pc[t] = "return" /\ cur[t].op = "get_usage") => cur[t].value = saved

----------------------------------------------------------------------------
(* C26 *)

\* what a count stands for once coerced on its own: a non-numeric count is 0
CoercedAlone(count) == IF count.kind = "int" THEN Max(0, count.val) ELSE 0

\* C26: a log_tokens call with a non-numeric count does not fail over it, and
\* when it is accepted each counter of the identity has grown by its own
\* count, the non-numeric one taken as 0: the other, valid count is added.
C26_AsClaimed ==
    \A t \in world.threads :
        (/\ pc[t] = "return"
         /\ cur[t].op = "log_tokens"
         /\ cur[t].outcome # "ignored"
         /\ (cur[t].inp.kind # "int" \/ cur[t].out.kind # "int")) =>
            LET c == cur[t]
                base == Stored(Live(c.before, c.t1), c.name)
            IN  /\ c.outcome \in {"ok", "agent_limit", "system_limit"}
                /\ c.outcome = "ok" =>
                     /\ c.after[c.name].input = base.input + CoercedAlone(c.inp)
                     /\ c.after[c.name].output = base.output + CoercedAlone(c.out)

----------------------------------------------------------------------------
(* the locks of cache_manager.py, cache_store.py and token_usage.py *)

\* cache_manager.py:6, cache_store.py:20 (one per CacheStore), token_usage.py:37
TheRegistryLock == [lock |-> "registry", id |-> 0]
TheStoreLock(id) == [lock |-> "store", id |-> id]
TheLedgerLock == [lock |-> "ledger", id |-> 0]

\* the steps of a call that matter to the locks: entering and leaving a with
\* block, and the statements of the registry under its lock
Acquire(l) == [do |-> "acquire", on |-> l]
Release(l) == [do |-> "release", on |-> l]
Body(what) == [do |-> what, on |-> TheRegistryLock]

With(l, body) == <<Acquire(l)>> \o body \o <<Release(l)>>

\* token_usage.py 190-193, 184-188, 149-153, 157-172, 180-182
save_usage_locks == With(TheLedgerLock, <<>>)
prune_expired_usage_locks == With(TheLedgerLock, save_usage_locks)
get_usage_locks == With(TheLedgerLock, <<>>)
get_total_usage_locks == With(TheLedgerLock, prune_expired_usage_locks)
reset_daily_usage_locks == With(TheLedgerLock, save_usage_locks)

\* token_usage.py 93-137: an accepted log_tokens
log_tokens_locks ==
    With(TheLedgerLock,
         prune_expired_usage_locks \o get_usage_locks \o get_total_usage_locks
             \o save_usage_locks)

LedgerLocks(op) ==
    CASE op = "log_tokens" -> log_tokens_locks
      [] op = "get_usage" -> get_usage_locks
      [] op = "get_total_usage" -> get_total_usage_locks
      [] op = "reset_daily_usage" -> reset_daily_usage_locks

LedgerOps == {"log_tokens", "get_usage", "get_total_usage", "reset_daily_usage"}

\* cache_store.py 50-98: every operation of a store is one with self.lock
StoreOps == {"get", "save", "has", "clear", "size", "remove"}

StoreLocks(id) == With(TheStoreLock(id), <<>>)

\* cache_manager.py 15-19, 25-28, 30-43, 46-54, 56-58
RegistryLocks(op) ==
    CASE op = "get_agent_cache" -> With(TheRegistryLock, <<>>)
      [] op = "register_cache" -> With(TheRegistryLock, <<Body("register")>>)
      [] op = "unregister_cache" -> With(TheRegistryLock, <<Body("unregister")>>)
      [] op = "clear_all_caches" -> With(TheRegistryLock, <<Body("iterate")>>)
      [] op = "get_cache_stats" -> With(TheRegistryLock, <<Body("iterate")>>)

RegistryOps ==
    {"get_agent_cache", "register_cache", "unregister_cache", "clear_all_caches",
     "get_cache_stats"}

\* cache.clear() or cache.size() of every registered store, in turn
RECURSIVE EachStore(_)
EachStore(ids) ==
    IF ids = <<>> THEN <<>> ELSE StoreLocks(Head(ids)) \o EachStore(Tail(ids))

\* frame[t]: the call thread t is in, the steps it has left, the number of
\* times it holds the ledger's lock
LockIdle == [op |-> "none", todo |-> <<>>, depth |-> 0]

LockCall(op, todo) == [op |-> op, todo |-> todo, depth |-> 0]

ModulesImported(w) ==
    /\ now = 0
    /\ usage = Empty
    /\ file = Empty
    /\ lock = NoThread
    /\ world = w
    /\ pc = [t \in w.threads |-> "idle"]
    /\ cur = [t \in w.threads |-> RegIdle]
    /\ cache = PyDict(Empty)
    /\ disk = NoFiles
    /\ store_lock = NoThread
    /\ saved = NoSaves
    /\ registry = [a \in {A_default} |-> shared_cache]
    /\ stores = <<Store(SHARED_CACHE_PATH, PyDict(Empty))>>
    /\ registry_lock = NoThread
    /\ data_cache = Empty
    /\ cache_expiry = Empty
    /\ singleton = [instance |-> 0, objects |-> <<>>]
    /\ frame = [t \in w.threads |-> LockIdle]

\* threading.Lock: free when nobody holds it, the holder included
LockFree(l) ==
    IF l.lock = "registry" THEN registry_lock = NoThread
    ELSE stores[l.id].lock = NoThread

\* a plain lock: holding it does not let the holder in again
Reentrant_never(t) == FALSE

\* threading.RLock, token_usage.py 37: the holder may acquire it again
Reentrant(t) == lock = t

CanAcquire(t, l) ==
    IF l.lock = "ledger" THEN lock = NoThread \/ Reentrant(t) ELSE LockFree(l)

Holder(l) ==
    CASE l.lock = "registry" -> registry_lock
      [] l.lock = "store" -> stores[l.id].lock
      [] l.lock = "ledger" -> lock

registry_call(t, op) ==
    /\ pc[t] = "idle"
    /\ op \in RegistryOps
    /\ frame' = [frame EXCEPT ![t] = LockCall(op, RegistryLocks(op))]
    /\ pc' = [pc EXCEPT ![t] = "run"]
    /\ UNCHANGED <<ledgerVars, cur, world, storeVars, registryVars, ttlVars, singleton>>

\* a call on a handle: any store made so far, registered or not
store_call(t, op, id) ==
    /\ pc[t] = "idle"
    /\ op \in StoreOps
    /\ id \in 1..Len(stores)
    /\ frame' = [frame EXCEPT ![t] = LockCall(op, StoreLocks(id))]
    /\ pc' = [pc EXCEPT ![t] = "run"]
    /\ UNCHANGED <<ledgerVars, cur, world, storeVars, registryVars, ttlVars, singleton>>

ledger_call(t, op) ==
    /\ pc[t] = "idle"
    /\ op \in LedgerOps
    /\ frame' = [frame EXCEPT ![t] = LockCall(op, LedgerLocks(op))]
    /\ pc' = [pc EXCEPT ![t] = "run"]
    /\ UNCHANGED <<ledgerVars, cur, world, storeVars, registryVars, ttlVars, singleton>>

Running(t) == pc[t] = "run" /\ frame[t].todo # <<>>

\* with <lock>: entered once the lock can be acquired
lock_acquire(t) ==
    /\ Running(t)
    /\ LET step == Head(frame[t].todo)
           l == step.on
       IN  /\ step.do = "acquire"
           /\ CanAcquire(t, l)
           /\ registry_lock' = IF l.lock = "registry" THEN t ELSE registry_lock
           /\ stores' = IF l.lock = "store" THEN [stores EXCEPT ![l.id].lock = t]
                        ELSE stores
           /\ lock' = IF l.lock = "ledger" THEN t ELSE lock
           /\ frame' = [frame EXCEPT ![t].todo = Tail(@),
                                     ![t].depth = IF l.lock = "ledger" THEN @ + 1 ELSE @]
    /\ UNCHANGED <<now, usage, file, pc, cur, world, storeVars, registry, ttlVars,
                   singleton>>

\* the end of a with block
lock_release(t) ==
    /\ Running(t)
    /\ LET step == Head(frame[t].todo)
           l == step.on
       IN  /\ step.do = "release"
           /\ registry_lock' = IF l.lock = "registry" THEN NoThread ELSE registry_lock
           /\ stores' = IF l.lock = "store" THEN [stores EXCEPT ![l.id].lock = NoThread]
                        ELSE stores
           /\ lock' = IF l.lock = "ledger" /\ frame[t].depth = 1 THEN NoThread ELSE lock
           /\ frame' = [frame EXCEPT ![t].todo = Tail(@),
                                     ![t].depth = IF l.lock = "ledger" THEN @ - 1 ELSE @]
    /\ UNCHANGED <<now, usage, file, pc, cur, world, storeVars, registry, ttlVars,
                   singleton>>

\* cache_manager.py 31-43: a new alias gets a new store
lock_register(t) ==
    /\ Running(t)
    /\ Head(frame[t].todo).do = "register"
    /\ IF A_x \in DOMAIN registry \/ Len(stores) >= MaxStores
       THEN UNCHANGED <<registry, stores>>
       ELSE /\ stores' = Append(stores, Store(AliasPath(A_x), PyDict(Empty)))
            /\ registry' = [a \in DOMAIN registry \cup {A_x} |->
                               IF a = A_x THEN Len(stores) + 1 ELSE registry[a]]
    /\ frame' = [frame EXCEPT ![t].todo = Tail(@)]
    /\ UNCHANGED <<ledgerVars, pc, cur, world, storeVars, registry_lock, ttlVars,
                   singleton>>

\* cache_manager.py 47-54
lock_unregister(t) ==
    /\ Running(t)
    /\ Head(frame[t].todo).do = "unregister"
    /\ registry' = [a \in DOMAIN registry \ {A_x} |-> registry[a]]
    /\ frame' = [frame EXCEPT ![t].todo = Tail(@)]
    /\ UNCHANGED <<ledgerVars, pc, cur, world, storeVars, stores, registry_lock, ttlVars,
                   singleton>>

\* cache_manager.py 27-28 and 58: the loop over the registered stores
lock_iterate(t) ==
    /\ Running(t)
    /\ Head(frame[t].todo).do = "iterate"
    /\ frame' = [frame EXCEPT ![t].todo = EachStore(Items(registry)) \o Tail(@)]
    /\ UNCHANGED <<ledgerVars, pc, cur, world, storeVars, registryVars, ttlVars,
                   singleton>>

lock_return(t) ==
    /\ pc[t] = "run"
    /\ frame[t].todo = <<>>
    /\ pc' = [pc EXCEPT ![t] = "idle"]
    /\ frame' = [frame EXCEPT ![t] = LockIdle]
    /\ UNCHANGED <<ledgerVars, cur, world, storeVars, registryVars, ttlVars, singleton>>

NextLocks ==
    \/ \E t \in world.threads, op \in RegistryOps : registry_call(t, op)
    \/ \E t \in world.threads, op \in StoreOps, id \in 1..MaxStores : store_call(t, op, id)
    \/ \E t \in world.threads, op \in LedgerOps : ledger_call(t, op)
    \/ \E t \in world.threads : lock_acquire(t)
    \/ \E t \in world.threads : lock_release(t)
    \/ \E t \in world.threads : lock_register(t)
    \/ \E t \in world.threads : lock_unregister(t)
    \/ \E t \in world.threads : lock_iterate(t)
    \/ \E t \in world.threads : lock_return(t)

InitLocks == ModulesImported([threads |-> Threads])

SpecLocks == InitLocks /\ [][NextLocks]_vars

----------------------------------------------------------------------------
(* C27 *)

\* thread t is at a with block whose lock it cannot acquire
Waiting(t) ==
    /\ Running(t)
    /\ Head(frame[t].todo).do = "acquire"
    /\ ~CanAcquire(t, Head(frame[t].todo).on)

HoldsAStoreLock(t) == \E id \in 1..Len(stores) : stores[id].lock = t

\* C27: no set of threads waits in a circle, each for a lock held by a thread of
\* the set (a thread waiting for a lock it holds itself included); no thread
\* comes to the registry lock while holding a store lock; a thread that holds
\* the ledger's lock is never kept waiting by it.
C27_NoDeadlock ==
    /\ \A D \in SUBSET world.threads :
         D # {} => ~(\A t \in D : Waiting(t) /\ Holder(Head(frame[t].todo).on) \in D)
    /\ \A t \in world.threads :
         (Running(t) /\ Head(frame[t].todo) = Acquire(TheRegistryLock)) =>
             ~HoldsAStoreLock(t)
    /\ \A t \in world.threads :
         (Running(t) /\ Head(frame[t].todo) = Acquire(TheLedgerLock) /\ lock = t) =>
             ~Waiting(t)

\* one thread, inside clear_all_caches or get_cache_stats with the registry
\* lock, waits for the lock of a store that another thread holds
C27_Witness ==
    \E t1, t2 \in world.threads :
        /\ registry_lock = t1 /\ Waiting(t1)
        /\ frame[t1].op \in {"clear_all_caches", "get_cache_stats"}
        /\ Holder(Head(frame[t1].todo).on) = t2
        /\ t2 # t1

----------------------------------------------------------------------------
(* cache_manager.py and cache_store.py: the handles of an alias *)

\* one thread registers and unregisters aliases without a path and saves,
\* removes and clears through every CacheStore object made so far
NextHandles ==
    \/ \E t \in world.threads : \E a \in world.aliases, p \in world.paths :
           register_cache(t, a, p)
    \/ \E t \in world.threads : \E a \in world.aliases : unregister_cache(t, a)
    \/ \E t \in world.threads : \E id \in DOMAIN stores :
           \E p \in world.store_pairs, v \in world.results : handle_save(t, id, p, v)
    \/ \E t \in world.threads : \E id \in DOMAIN stores :
           \E p \in world.store_pairs : handle_remove(t, id, p)
    \/ \E t \in world.threads : \E id \in DOMAIN stores : handle_clear(t, id)
    \/ \E t \in world.threads : registry_return(t)

InitHandles ==
    RegistryImported(RegistryCallers({"t1"}, {A_x, A_shared}, {NoPath},
                                     {P_plain, P_other}, {R_text}))

SpecHandles == InitHandles /\ [][NextHandles]_vars

----------------------------------------------------------------------------
(* C28 *)

\* C28: for every alias registered without a path of the caller's, every entry
\* saved through a handle of the alias and not removed or cleared since is in
\* the alias's backing file, with the value saved.
C28_AsClaimed ==
    \A a \in DOMAIN saved.expected \ (saved.given \cup {A_default}) :
        \A k \in DOMAIN saved.expected[a] :
            LET f == disk[AliasPath(a)]
            IN  /\ f.kind = "json"
                /\ k \in DOMAIN f.value.items
                /\ f.value.items[k] = saved.expected[a][k]

----------------------------------------------------------------------------
(* C29 *)

\* no thread is inside a call
Quiet == \A t \in world.threads : pc[t] = "idle"

\* C29: a save, remove or clear that raises because the write failed leaves the
\* map as it was when the call began, and a log_tokens that raises because the
\* write failed leaves the identity's counters within the window as they were;
\* so between calls the map holds no entry, and the ledger no count, that the
\* file does not hold.
C29_AsClaimed ==
    /\ \A t \in world.threads :
         (pc[t] = "return" /\ cur[t].failed /\ cur[t].outcome = "raised") =>
             /\ cur[t].op \in {"save", "remove", "clear"} => cache = cur[t].before
             /\ cur[t].op = "log_tokens" =>
                  Stored(usage, cur[t].name) =
                      Stored(Live(cur[t].before, cur[t].t1), cur[t].name)
    /\ (Quiet /\ world.part = "store") =>
          \A k \in DOMAIN cache.items :
              /\ disk[CachePath].kind = "json"
              /\ k \in DOMAIN disk[CachePath].value.items
              /\ disk[CachePath].value.items[k] = cache.items[k]
    /\ (Quiet /\ world.part = "ledger") =>
          \A a \in DOMAIN usage :
              /\ a \in DOMAIN file
              /\ Counters(file[a]) = Counters(usage[a])

----------------------------------------------------------------------------
(* agents/base.py: BaseAgent.execute_task over its CacheStore *)

\* what handle_task returns: a string, never None
R_handled == Str(<<"h">>)

\* the agents run execute_task, the other threads call the store directly
AgentCallers(agents, others, pairs, results) ==
    [threads |-> agents \cup others, agents |-> agents, store_pairs |-> pairs,
     results |-> results, workers |-> FALSE,
     todo |-> [t \in agents \cup others |-> <<>>]]

\* frame[t] of an agent inside execute_task: the (task, name) pair, what has
\* returned and what the map held then, the result so far, whether handle_task
\* and log_tokens were called
Task(p, hit, seen) ==
    [op |-> "execute_task", pair |-> p, hit |-> hit, seen |-> seen, result |-> None,
     handled |-> FALSE, logged |-> FALSE]

\* line 96: self._cache.has(cache_key, self.name), use_cache being True
execute_task(t, p) ==
    /\ pc[t] = "idle"
    /\ LockAvailable(t)
    /\ LET hit == cache.type = "dict" /\ KeyOf(p) \in DOMAIN cache.items
       IN  /\ frame' = [frame EXCEPT ![t] =
                           Task(p, hit, IF hit THEN cache.items[KeyOf(p)] ELSE None)]
           /\ pc' = [pc EXCEPT ![t] = IF hit THEN "task_get" ELSE "task_handle"]
    /\ UNCHANGED <<ledgerVars, cur, world, storeVars, registryVars, ttlVars, singleton>>

\* lines 97-99: result = self._cache.get(cache_key, self.name); return result
execute_task_get(t) ==
    /\ pc[t] = "task_get"
    /\ LockAvailable(t)
    /\ LET key == KeyOf(frame[t].pair)
       IN  frame' = [frame EXCEPT ![t].result =
                        IF key \in DOMAIN cache.items THEN cache.items[key] ELSE None]
    /\ pc' = [pc EXCEPT ![t] = "task_return"]
    /\ UNCHANGED <<ledgerVars, cur, world, storeVars, registryVars, ttlVars, singleton>>

\* lines 102-103: result = await self.handle_task(task, context)
execute_task_handle(t) ==
    /\ pc[t] = "task_handle"
    /\ frame' = [frame EXCEPT ![t].result = R_handled, ![t].handled = TRUE]
    /\ pc' = [pc EXCEPT ![t] = "task_log"]
    /\ UNCHANGED <<ledgerVars, cur, world, storeVars, registryVars, ttlVars, singleton>>

\* lines 110-115: the tokens are estimated and logged; whatever log_tokens
\* raises is caught and logged
execute_task_log(t) ==
    /\ pc[t] = "task_log"
    /\ frame' = [frame EXCEPT ![t].logged = TRUE]
    /\ pc' = [pc EXCEPT ![t] = "task_save"]
    /\ UNCHANGED <<ledgerVars, cur, world, storeVars, registryVars, ttlVars, singleton>>

\* lines 118-122: self._cache.save(cache_key, self.name, result); return result
execute_task_save(t) ==
    /\ pc[t] = "task_save"
    /\ LockAvailable(t)
    /\ LET p == frame[t].pair
           c == PyDict(Put(cache.items, KeyOf(p), frame[t].result))
       IN  /\ cache' = c
           /\ disk' = [disk EXCEPT ![CachePath] = json_dump(c)]
           /\ saved' = [latest |-> Put(saved.latest, KeyOf(p),
                                       [val |-> frame[t].result, kept |-> FALSE]),
                        pairs |-> saved.pairs \cup {p},
                        removed |-> saved.removed \ {p}]
    /\ pc' = [pc EXCEPT ![t] = "task_return"]
    /\ UNCHANGED <<ledgerVars, cur, world, store_lock, moreVars>>

\* execute_task has returned frame[t].result
execute_task_return(t) ==
    /\ pc[t] = "task_return"
    /\ frame' = [frame EXCEPT ![t] = NoFrame]
    /\ pc' = [pc EXCEPT ![t] = "idle"]
    /\ UNCHANGED <<ledgerVars, cur, world, storeVars, registryVars, ttlVars, singleton>>

\* the other threads save, remove and clear on the agents' store; clear is
\* also what clear_all_caches does to it
NextAgents ==
    \/ \E t \in world.agents : \E p \in world.store_pairs : execute_task(t, p)
    \/ \E t \in world.agents : execute_task_get(t)
    \/ \E t \in world.agents : execute_task_handle(t)
    \/ \E t \in world.agents : execute_task_log(t)
    \/ \E t \in world.agents : execute_task_save(t)
    \/ \E t \in world.agents : execute_task_return(t)
    \/ \E t \in world.threads \ world.agents :
           \E p \in world.store_pairs, v \in world.results : save(t, p, v)
    \/ \E t \in world.threads \ world.agents :
           \E p \in world.store_pairs : remove(t, p)
    \/ \E t \in world.threads \ world.agents : clear(t)
    \/ \E t \in world.threads \ world.agents : save_cache_open(t)
    \/ \E t \in world.threads \ world.agents : save_cache_dump(t)
    \/ \E t \in world.threads \ world.agents : save_cache_replace(t)
    \/ \E t \in world.threads \ world.agents : store_return(t)

InitAgents ==
    StoreConstructed(NoFiles, AgentCallers({"t1"}, {"t2"}, {P_plain, P_other}, {R_text}))

SpecAgents == InitAgents /\ [][NextAgents]_vars

----------------------------------------------------------------------------
(* C30 *)

\* C30: execute_task returns the value cached for its pair or the handler's
\* result, never None, whatever the other threads do to the store meanwhile;
\* when has found the entry, neither handle_task nor log_tokens is called.
C30_AsClaimed ==
    \A t \in world.agents : pc[t] = "task_return" =>
        /\ frame[t].result # None
        /\ frame[t].result \in world.results \cup {R_handled}
        /\ frame[t].hit => (~frame[t].handled /\ ~frame[t].logged)

====
